---- MODULE Spec2Model ----
(***************************************************************************)
(* The task-graph engine of caf2 (src/caf2/caf.py): futures, hashed        *)
(* futures (Task, Template, Indexor), the Session with its task table and  *)
(* tape, and the eval driver.  Objects live in a heap (a sequence of       *)
(* records, an object's identity is its index); every engine operation is  *)
(* a function from session states to session states, composed by the       *)
(* actions at the end of the module.                                       *)
(***************************************************************************)
EXTENDS Integers, Sequences, FiniteSets, TLC

\* ------------------------------------------------------------------ bounds
\* largest integer a client passes to a rule
MaxN == 2
\* largest key a client indexes a future with
MaxKey == 1
\* number of eval calls in one session
MaxEvals == 2
\* number of fresh Rule calls / indexings / templates the client makes
MaxOps == 2
\* largest argument of the Fibonacci scenario (SpecFib)
MaxFib == 6

VARIABLES
    heap,       \* every future object created so far, by identity
    tasks,      \* Session._tasks: hashid -> Task
    task_tape,  \* Session._task_tape: None or the task whose children list records
    queue,      \* eval's local queue of tasks
    pc,         \* "idle" (client code) or "eval" (inside eval's while loop)
    root,       \* eval's local fut
    evalNo,     \* number of eval calls started so far
    held,       \* the futures client code created and keeps in its variables
    ret,        \* outcome of the last client-level call
    active,     \* Session._active: None or the Session object that is entered
    scopes,     \* the record() scopes client code is in: for each, innermost
                \* last, the value of _task_tape when the scope was entered
    \* the legacy workers (caflib) and the task root they share
    seal,       \* per task: the file .caf/seal exists
    error,      \* per task: the file .caf/error exists
    lock,       \* per task: the directory .lock exists
    wqueue,     \* per worker: LocalWorker.queue
    skipped,    \* per worker: the set skipped of its get_locked_task call
    current_taskid,  \* per worker: Worker.current_taskid
    wpc,        \* per worker: the statement it is at
    \* function hashing (caf2.hashing.func)
    globals_of, \* per function: the functions its globals refer to
    cache,      \* _cache: function -> Hash
    hstack,     \* the frames of hash_function that are executing, innermost last
    hret        \* outcome of the last hash_function call of client code

\* the variables of the legacy workers
wvars == <<seal, error, lock, wqueue, skipped, current_taskid, wpc>>
\* the variables of function hashing
hvars == <<globals_of, cache, hstack, hret>>
\* the variables outside the caf2 session
ovars == <<wvars, hvars>>
\* the variables of the caf2 session and its client
evars == <<heap, tasks, task_tape, queue, pc, root, evalNo, held, ret, active, scopes>>

vars == <<heap, tasks, task_tape, queue, pc, root, evalNo, held, ret, active, scopes,
          wvars, hvars>>

None == 0

\* The Session objects of the model: Sess is the session whose table, tape and
\* eval the variables hold; Other is a second Session object, which client
\* code only enters and leaves.
Sess == 1
Other == 2

\* ------------------------------------------------------------------ values
\* Python values of the model: integers, lists, and references to futures.
PInt(n) == [int |-> n]
PList(s) == [list |-> s]
Ref(id) == [ref |-> id]
IsInt(v) == "int" \in DOMAIN v
IsList(v) == "list" \in DOMAIN v
IsRef(v) == "ref" \in DOMAIN v
\* a str, as the sequence of its characters
PStr(s) == [str |-> s]
IsStr(v) == "str" \in DOMAIN v

\* NoResult.TOKEN
NoResult == [noresult |-> TRUE]

Min(s) == CHOOSE x \in s : \A y \in s : x <= y
Max(s) == CHOOSE x \in s : \A y \in s : x >= y

\* Iteration order of a Python set: the engine iterates _children and the
\* result of extract_tasks, both sets; the order is not specified.  The model
\* covers two orders, ascending and descending identity, chosen per step.
RECURSIVE SeqOf(_, _)
SeqOf(s, asc) ==
    IF s = {} THEN <<>>
    ELSE LET x == IF asc THEN Min(s) ELSE Max(s)
         IN <<x>> \o SeqOf(s \ {x}, asc)

RECURSIVE SumOf(_)
SumOf(s) == IF s = <<>> THEN 0 ELSE Head(s).int + SumOf(Tail(s))

\* ------------------------------------------------------------------ hashing
\* hash_text is SHA-1; the model takes it as injective and uses the hashed
\* text itself.
hash_text(text) == text

\* get_fullname(func): module and qualified name of the rule's function.
get_fullname(f) == f

\* Task.spec / Task.hashid
TaskSpec(f, arghashes) == [func |-> get_fullname(f), args |-> arghashes]
TaskHashid(f, arghashes) == hash_text(TaskSpec(f, arghashes))

\* Template.hashid: "{}" + hash_text(jsonstr)
TemplateHashid(jsonstr) == [tmpl |-> hash_text(jsonstr)]

\* str(n) of an integer: its decimal digits
RECURSIVE Digits(_)
Digits(n) ==
    IF n < 0 THEN <<"-">> \o Digits(0 - n)
    ELSE IF n < 10 THEN <<<<"0", "1", "2", "3", "4", "5", "6", "7", "8", "9">>[n + 1]>>
    ELSE Digits(n \div 10) \o Digits(n % 10)

\* str(key) for the keys of an Indexor: the keys are integers and strings
KeyStr(k) == IF IsInt(k) THEN Digits(k.int) ELSE k.str

\* '/'.join([head, *strs]) without its head: every str preceded by '/'
RECURSIVE SlashJoin(_)
SlashJoin(strs) ==
    IF strs = <<>> THEN <<>> ELSE <<"/">> \o Head(strs) \o SlashJoin(Tail(strs))

\* Indexor.hashid: '/'.join(['@' + task.hashid, *map(str, keys)]).  The
\* task's hashid is a hexadecimal digest, so the text is the pair of the
\* digest and the characters that follow it.
IndexorHashid(taskhash, keys) ==
    [at |-> taskhash, path |-> SlashJoin([i \in DOMAIN keys |-> KeyStr(keys[i])])]

\* ------------------------------------------------------------------ Future
Done(h, f) == h[f].result # NoResult
Ready(h, f) == h[f].pending = {}
\* Task.has_run
HasRun(h, f) == Done(h, f) \/ h[f].future_result # None

Tasks(h) == {i \in DOMAIN h : h[i].kind = "Task"}
Templates(h) == {i \in DOMAIN h : h[i].kind = "Template"}
Indexors(h) == {i \in DOMAIN h : h[i].kind = "Indexor"}

\* Future.__init__ (with the fields of the three subclasses at their defaults)
FutureInit(h, kind, parents) ==
    [kind |-> kind,
     pending |-> {p \in parents : ~Done(h, p)},
     children |-> {},
     result |-> NoResult,
     done_callbacks |-> <<>>,
     ready_callbacks |-> <<>>,
     registered |-> FALSE,
     hashid |-> NoResult,
     \* Task
     func |-> "", args |-> <<>>, tchildren |-> <<>>, future_result |-> None,
     default |-> NoResult,
     \* Template
     jsonstr |-> NoResult, futures |-> {},
     \* Indexor
     task |-> None, keys |-> <<>>,
     \* observation of run_task: number of invocations of func, whether all
     \* arguments were done at each invocation, the values last passed,
     \* what the rule body last returned, and whether it ever raised
     runs |-> 0, argsDone |-> TRUE, passed |-> <<>>, returned |-> NoResult,
     raised |-> FALSE,
     \* observation of the callbacks: the ready callbacks passed to
     \* add_ready_callback, the ready callbacks invoked and the done
     \* callbacks invoked, in order
     added |-> <<>>, fired |-> <<>>, dfired |-> <<>>,
     \* observation of the rule body: whether func is executing, and the
     \* tasks create_task returned to it, in call order
     inbody |-> FALSE, calls |-> <<>>]

\* ------------------------------------------------------------------ state
\* The session state the engine's operations transform.  err is the exception
\* in flight ("" when none): once set, the remaining statements are skipped.
Raise(S, e) == [S EXCEPT !.err = e]
Ok(S) == S.err = ""

Here == [heap |-> heap, tasks |-> tasks, tape |-> task_tape, queue |-> queue,
         evalNo |-> evalNo, err |-> ""]

\* (variant of FutureRegister: no add_child)
FutureRegisterUnwired(S, f) ==
    IF S.heap[f].registered THEN S
    ELSE [S EXCEPT !.heap[f].registered = TRUE]

\* Future.register: wire the future into the children of its pending parents.
FutureRegister(S, f) ==
    IF S.heap[f].registered THEN S
    ELSE [S EXCEPT !.heap =
            [i \in DOMAIN S.heap |->
                IF i = f THEN [S.heap[i] EXCEPT !.registered = TRUE]
                ELSE IF i \in S.heap[f].pending
                     THEN [S.heap[i] EXCEPT !.children = @ \cup {f}]
                     ELSE S.heap[i]]]

RECURSIVE RegisterAll(_, _)
RegisterAll(S, fs) ==
    IF fs = {} THEN S
    ELSE LET f == Min(fs) IN RegisterAll(FutureRegister(S, f), fs \ {f})

\* Template.register: on the first call also registers the pending futures
\* (Tasks and Indexors, which have Future.register).
TemplateRegister(S, f) ==
    IF S.heap[f].registered THEN S
    ELSE RegisterAll(FutureRegister(S, f), S.heap[f].pending)

\* fut.register(), dispatched on the class; Task and Indexor inherit
\* HashedFuture.register, which is Future.register plus logging.
Register(S, f) ==
    IF S.heap[f].kind = "Template" THEN TemplateRegister(S, f)
    ELSE FutureRegister(S, f)

\* (variant of RegisterCall: every call reports that it wired the future)
RegisterCallAlways(S, f) == [st |-> Register(S, f), ok |-> TRUE]

\* fut.register() with the value it returns: whether this call was the first
RegisterCall(S, f) == [st |-> Register(S, f), ok |-> ~S.heap[f].registered]

\* ------------------------------------------------------------------ codec
\* Template.from_object's json.dumps: futures become tagged holes carrying the
\* hashid; lists and integers are kept.
RECURSIVE Encode(_, _)
Encode(h, obj) ==
    IF IsRef(obj) THEN [cls |-> h[obj.ref].kind, hashid |-> h[obj.ref].hashid]
    ELSE IF IsList(obj)
         THEN PList([i \in DOMAIN obj.list |-> Encode(h, obj.list[i])])
         ELSE obj

\* the tape of json.dumps: every future met while encoding
RECURSIVE FuturesIn(_)
FuturesIn(obj) ==
    IF IsRef(obj) THEN {obj.ref}
    ELSE IF IsList(obj)
         THEN UNION {FuturesIn(obj.list[i]) : i \in DOMAIN obj.list}
         ELSE {}

RECURSIVE Result(_, _, _), DefaultResult(_, _, _), Decode(_, _, _, _)

\* (variant of FutureOf: the hole's hashid is ignored)
FutureOfAny(h, T, hid) == CHOOSE i \in h[T].futures : TRUE

\* Template._futures[hashid]: the dict built from the tape, keyed by hashid
FutureOf(h, T, hid) == CHOOSE i \in h[T].futures : h[i].hashid = hid

\* Template.substitute's json.loads: every hole is replaced by
\* self._futures[hashid].result(default).  [ok, val]; ok is FALSE when a
\* referenced future raised FutureNotDone.
Decode(h, T, js, default) ==
    LET Join(parts) == [ok |-> \A i \in DOMAIN parts : parts[i].ok,
                        val |-> PList([i \in DOMAIN parts |-> parts[i].val])]
    IN IF "hashid" \in DOMAIN js THEN Result(h, FutureOf(h, T, js.hashid), default)
       ELSE IF IsList(js)
            THEN Join([i \in DOMAIN js.list |-> Decode(h, T, js.list[i], default)])
            ELSE [ok |-> TRUE, val |-> js]

Substitute(h, T, default) == Decode(h, T, h[T].jsonstr, default)

\* default_result: Future returns the default, Task delegates to its
\* future_result when it has one, Template substitutes with the default.
DefaultResult(h, f, default) ==
    IF h[f].kind = "Task" /\ h[f].future_result # None
    THEN DefaultResult(h, h[f].future_result, default)
    ELSE IF h[f].kind = "Template" THEN Substitute(h, f, default)
    ELSE [ok |-> TRUE, val |-> default]

\* (variant of Result: a default, when given, is looked at before the result)
ResultDefaultFirst(h, f, default) ==
    IF default # NoResult THEN DefaultResult(h, f, default)
    ELSE IF h[f].result # NoResult THEN [ok |-> TRUE, val |-> h[f].result]
    ELSE [ok |-> FALSE, val |-> NoResult]

\* Future.result(default): [ok, val]; ok FALSE is FutureNotDone
Result(h, f, default) ==
    IF h[f].result # NoResult THEN [ok |-> TRUE, val |-> h[f].result]
    ELSE IF default # NoResult THEN DefaultResult(h, f, default)
    ELSE [ok |-> FALSE, val |-> NoResult]

\* obj[key] on a Python value: a list indexed by an integer in range
CanIndex(v, k) == IsList(v) /\ IsInt(k) /\ k.int + 1 \in DOMAIN v.list

RECURSIVE Walk(_, _)
Walk(v, keys) ==
    IF keys = <<>> THEN [ok |-> TRUE, val |-> v]
    ELSE IF CanIndex(v, Head(keys)) THEN Walk(v.list[Head(keys).int + 1], Tail(keys))
    ELSE [ok |-> FALSE, val |-> NoResult]

\* Indexor.resolve: ok FALSE is the task's FutureNotDone or the IndexError /
\* TypeError of obj[key]
Resolve(h, f) ==
    LET Get(r) == IF r.ok THEN Walk(r.val, h[f].keys) ELSE r
    IN Get(Result(h, h[f].task, NoResult))

\* ------------------------------------------------------------------ completion
RECURSIVE SetResult(_, _, _, _), ParentsDone(_, _, _, _)
RECURSIVE ReadyCallbacks(_, _, _, _), DoneCallbacks(_, _, _, _)
RECURSIVE DoneCallbacksReversed(_, _, _, _)

\* eval's schedule(task) closure of the k-th eval: appends to that eval's queue
\* unless the task is in it.  The queue of an eval that has ended is garbage.
Schedule(S, t, k) ==
    IF k = S.evalNo /\ ~(\E i \in DOMAIN S.queue : S.queue[i] = t)
    THEN [S EXCEPT !.queue = Append(@, t)]
    ELSE S

\* one ready callback: the lambdas of Template.__init__ and Indexor.__init__,
\* eval's schedule, or a callback of client code that only takes note
ReadyCallback(S, cb, f, asc) ==
    LET Set(S0, r, e) == IF r.ok THEN SetResult(S0, f, r.val, asc) ELSE Raise(S0, e)
        Invoke(S0) ==
            IF cb.cb = "substitute"
            THEN Set(S0, Substitute(S0.heap, f, NoResult), "FutureNotDone")
            ELSE IF cb.cb = "resolve"
            THEN Set(S0, Resolve(S0.heap, f), "IndexError")
            ELSE IF cb.cb = "schedule" THEN Schedule(S0, f, cb.eval)
            ELSE S0
    IN Invoke([S EXCEPT !.heap[f].fired = Append(@, cb)])

ReadyCallbacks(S, cbs, f, asc) ==
    IF cbs = <<>> \/ ~Ok(S) THEN S
    ELSE ReadyCallbacks(ReadyCallback(S, Head(cbs), f, asc), Tail(cbs), f, asc)

\* Future.parent_done
ParentDone(S, c, p, asc) ==
    LET Fire(S1) == IF Ready(S1.heap, c)
                    THEN ReadyCallbacks(S1, S1.heap[c].ready_callbacks, c, asc)
                    ELSE S1
    IN IF p \notin S.heap[c].pending THEN Raise(S, "KeyError")
       ELSE Fire([S EXCEPT !.heap[c].pending = @ \ {p}])

ParentsDone(S, cs, p, asc) ==
    IF cs = <<>> \/ ~Ok(S) THEN S
    ELSE ParentsDone(ParentDone(S, Head(cs), p, asc), Tail(cs), p, asc)

\* (variant of DoneCallbacks: the list is walked from its end)
DoneCallbacksReversed(S, cbs, f, asc) ==
    LET Invoke(S0, cb) ==
            IF cb.task = None THEN S0
            ELSE SetResult(S0, cb.task, S0.heap[f].result, asc)
        Last(n) == Invoke([S EXCEPT !.heap[f].dfired = Append(@, cbs[n])], cbs[n])
    IN IF cbs = <<>> \/ ~Ok(S) THEN S
       ELSE DoneCallbacksReversed(Last(Len(cbs)), SubSeq(cbs, 1, Len(cbs) - 1), f, asc)

\* `for callback in self._done_callbacks: callback(self)`: the done callback
\* run_task installs, lambda fut: task.set_result(fut.result()), or a callback
\* of client code that only takes note (task None)
DoneCallbacks(S, cbs, f, asc) ==
    LET Invoke(S0, cb) ==
            IF cb.task = None THEN S0
            ELSE SetResult(S0, cb.task, S0.heap[f].result, asc)
        First(cb) == Invoke([S EXCEPT !.heap[f].dfired = Append(@, cb)], cb)
    IN IF cbs = <<>> \/ ~Ok(S) THEN S
       ELSE DoneCallbacks(First(Head(cbs)), Tail(cbs), f, asc)

\* (variant of SetResult: no `assert self._result is _NoResult`)
SetResultAgain(S, f, v, asc) ==
    LET Clear(S3) == IF S.heap[f].kind = "Task" /\ Ok(S3)
                     THEN [S3 EXCEPT !.heap[f].future_result = None]
                     ELSE S3
    IN IF ~Ok(S) THEN S
       ELSE IF ~Ready(S.heap, f) THEN Raise(S, "AssertionError")
       ELSE Clear(DoneCallbacks(
                ParentsDone([S EXCEPT !.heap[f].result = v],
                            SeqOf(S.heap[f].children, asc), f, asc),
                S.heap[f].done_callbacks, f, asc))

\* (variant of SetResult: no `assert self.ready()`)
SetResultUnready(S, f, v, asc) ==
    LET Clear(S3) == IF S.heap[f].kind = "Task" /\ Ok(S3)
                     THEN [S3 EXCEPT !.heap[f].future_result = None]
                     ELSE S3
    IN IF ~Ok(S) THEN S
       ELSE IF Done(S.heap, f) THEN Raise(S, "AssertionError")
       ELSE Clear(DoneCallbacks(
                ParentsDone([S EXCEPT !.heap[f].result = v],
                            SeqOf(S.heap[f].children, asc), f, asc),
                S.heap[f].done_callbacks, f, asc))

\* Future.set_result, and Task.set_result which clears _future_result after it
SetResult(S, f, v, asc) ==
    LET Clear(S3) == IF S.heap[f].kind = "Task" /\ Ok(S3)
                     THEN [S3 EXCEPT !.heap[f].future_result = None]
                     ELSE S3
    IN IF ~Ok(S) THEN S
       ELSE IF ~Ready(S.heap, f) \/ Done(S.heap, f) THEN Raise(S, "AssertionError")
       ELSE Clear(DoneCallbacks(
                ParentsDone([S EXCEPT !.heap[f].result = v],
                            SeqOf(S.heap[f].children, asc), f, asc),
                S.heap[f].done_callbacks, f, asc))

\* Future.add_ready_callback
AddReadyCallback(S, f, cb, asc) ==
    LET Add(S0) == IF Ready(S0.heap, f) THEN ReadyCallback(S0, cb, f, asc)
                   ELSE [S0 EXCEPT !.heap[f].ready_callbacks = Append(@, cb)]
    IN Add([S EXCEPT !.heap[f].added = Append(@, cb)])

\* (variant of AddDoneCallback: the task that waits for the future gets it as
\* a pending parent)
AddDoneCallbackPending(S, f, cb) ==
    IF Done(S.heap, f) THEN Raise(S, "AssertionError")
    ELSE IF cb.task = None THEN [S EXCEPT !.heap[f].done_callbacks = Append(@, cb)]
    ELSE [S EXCEPT !.heap[f].done_callbacks = Append(@, cb),
                   !.heap[cb.task].pending = @ \cup {f}]

\* Future.add_done_callback
AddDoneCallback(S, f, cb) ==
    IF Done(S.heap, f) THEN Raise(S, "AssertionError")
    ELSE [S EXCEPT !.heap[f].done_callbacks = Append(@, cb)]

\* ------------------------------------------------------------------ constructors
\* A constructor appends the new object to the heap; its identity is the new
\* length of the heap.

\* Template.from_object and Template.__init__
NewTemplate(S, obj) ==
    LET Make(futs, js) ==
            AddReadyCallback(
                [S EXCEPT !.heap = Append(@, [FutureInit(S.heap, "Template", futs) EXCEPT
                                                 !.jsonstr = js, !.futures = futs,
                                                 !.hashid = TemplateHashid(js)])],
                Len(S.heap) + 1, [cb |-> "substitute", eval |-> 0], TRUE)
    IN IF IsRef(obj) THEN Raise(S, "AssertionError")
       ELSE Make(FuturesIn(obj), Encode(S.heap, obj))

\* Indexor.__init__; a constructor that raises leaves no object behind
NewIndexor(S, t, keys) ==
    LET Made(S2) == IF Ok(S2) THEN S2 ELSE Raise(S, S2.err)
    IN Made(AddReadyCallback(
               [S EXCEPT !.heap = Append(@, [FutureInit(S.heap, "Indexor", {t}) EXCEPT
                                                !.task = t, !.keys = keys,
                                                !.hashid = IndexorHashid(S.heap[t].hashid, keys)])],
               Len(S.heap) + 1, [cb |-> "resolve", eval |-> 0], TRUE))

\* Task.__getitem__ and Indexor.__getitem__
GetItem(S, f, key) ==
    IF S.heap[f].kind = "Task" THEN NewIndexor(S, f, <<key>>)
    ELSE NewIndexor(S, S.heap[f].task, Append(S.heap[f].keys, key))

\* the hashid an argument will have once Task.__init__ has promoted it
ArgHashid(h, obj) ==
    IF IsRef(obj) THEN h[obj.ref].hashid ELSE TemplateHashid(Encode(h, obj))

\* Task.__init__, first statement: every argument that is no HashedFuture is
\* promoted to a Template.  [st, args]
RECURSIVE PromoteArgs(_, _, _)
PromoteArgs(S, objs, acc) ==
    LET Rest(S1) == PromoteArgs(S1, Tail(objs), Append(acc, Len(S1.heap)))
    IN IF objs = <<>> THEN [st |-> S, args |-> acc]
       ELSE IF IsRef(Head(objs))
            THEN PromoteArgs(S, Tail(objs), Append(acc, Head(objs).ref))
            ELSE Rest(NewTemplate(S, Head(objs)))

\* (variant of NewTask: the default is hashed with the function and arguments)
NewTaskHashDefault(S, f, objs, default) ==
    LET Make(p) ==
            [p.st EXCEPT !.heap = Append(@,
                [FutureInit(p.st.heap, "Task", {p.args[i] : i \in DOMAIN p.args}) EXCEPT
                    !.func = f, !.args = p.args, !.default = default,
                    !.hashid = TaskHashid(<<f, default>>,
                                          [i \in DOMAIN p.args |->
                                              p.st.heap[p.args[i]].hashid])])]
    IN Make(PromoteArgs(S, objs, <<>>))

\* Task.__init__
NewTask(S, f, objs, default) ==
    LET Make(p) ==
            [p.st EXCEPT !.heap = Append(@,
                [FutureInit(p.st.heap, "Task", {p.args[i] : i \in DOMAIN p.args}) EXCEPT
                    !.func = f, !.args = p.args, !.default = default,
                    !.hashid = TaskHashid(f, [i \in DOMAIN p.args |->
                                                 p.st.heap[p.args[i]].hashid])])]
    IN Make(PromoteArgs(S, objs, <<>>))

\* extract_tasks: the tasks among the futures reachable over pending edges
RECURSIVE Reach(_, _, _)
Reach(h, frontier, visited) ==
    LET Step(v) == Reach(h, UNION {h[f].pending : f \in frontier} \ v, v)
    IN IF frontier = {} THEN visited ELSE Step(visited \cup frontier)

extract_tasks(h, f) == Reach(h, {f}, {}) \cap Tasks(h)

\* ------------------------------------------------------------------ Session
\* Session.__contains__: task.hashid in self._tasks
InSession(S, t) == \E u \in S.tasks : S.heap[u].hashid = S.heap[t].hashid

\* self._tasks[hashid], the set of tasks stored under that key (at most one)
Lookup(S, hid) == {u \in S.tasks : S.heap[u].hashid = hid}

\* self._tasks[task.hashid] = task
Insert(S, t) ==
    [S EXCEPT !.tasks = (@ \ Lookup(S, S.heap[t].hashid)) \cup {t}]

\* (variant of TapeAppend: a task found in the table is not recorded)
TapeAppendNew(S, t) ==
    IF S.tape = None \/ t \in S.tasks THEN S
    ELSE [S EXCEPT !.heap[S.tape].tchildren = Append(@, t)]

\* self._task_tape.append(task) when a tape is active; the tape eval records on
\* is the children list of the running task
TapeAppend(S, t) ==
    IF S.tape = None THEN S
    ELSE [S EXCEPT !.heap[S.tape].tchildren = Append(@, t)]

\* create_task, the loop over task.args: validation and registration, argument
\* by argument
RECURSIVE RegisterArgs(_, _)
RegisterArgs(S, args) ==
    IF args = <<>> \/ ~Ok(S) THEN S
    ELSE LET a == Head(args)
             foreign == IF S.heap[a].kind = "Task" THEN ~InSession(S, a)
                        ELSE \E t \in extract_tasks(S.heap, a) : ~InSession(S, t)
         IN IF foreign THEN Raise(S, "ArgNotInSession")
            ELSE RegisterArgs(Register(S, a), Tail(args))

\* The objects a create_task that raised leaves behind (the candidate and the
\* Templates its constructor made) are garbage once nothing refers to them:
\* no children set and no tape of the n objects that existed before.
Collect(S, n) ==
    IF \A i \in 1..n :
          /\ \A c \in S.heap[i].children : c <= n
          /\ \A j \in DOMAIN S.heap[i].tchildren : S.heap[i].tchildren[j] <= n
    THEN [S EXCEPT !.heap = SubSeq(@, 1, n)]
    ELSE S

\* Session.create_task.  [st, task]; task is None when it raised.  On a
\* deduplication hit the candidate Task (and the Templates its constructor
\* made) is dropped by the caller and is garbage: the model does not keep it.
CreateTaskFresh(S, f, objs, default) ==
    LET Store(S2, t) == IF Ok(S2)
                        THEN [st |-> Insert(Register(S2, t), t), task |-> t]
                        ELSE [st |-> Collect(S2, Len(S.heap)), task |-> None]
        Enter(S1) == Store(RegisterArgs(TapeAppend(S1, Len(S1.heap)),
                                        S1.heap[Len(S1.heap)].args),
                           Len(S1.heap))
    IN Enter(NewTask(S, f, objs, default))

\* (variant of create_task: the table is not consulted)
create_taskNoLookup(S, f, objs, default) == CreateTaskFresh(S, f, objs, default)

create_task(S, f, objs, default) ==
    LET Found(t) == [st |-> TapeAppend(S, t), task |-> t]
        Try(hit) == IF hit # {} THEN Found(CHOOSE u \in hit : TRUE)
                    ELSE CreateTaskFresh(S, f, objs, default)
    IN Try(Lookup(S, TaskHashid(f, [i \in DOMAIN objs |-> ArgHashid(S.heap, objs[i])])))

\* ------------------------------------------------------------------ rules
\* The rules of the session's client: those of src/tests/test_caf2.py and two
\* that return a call of another rule.  A body is an expression over its
\* argument values; evaluating it calls create_task for every rule call, in
\* Python's left-to-right order.
Lit(v) == [op |-> "lit", v |-> v]
CallE(f, as) == [op |-> "call", f |-> f, args |-> as]
ListE(items) == [op |-> "list", items |-> items]
IndexE(e, k) == [op |-> "index", of |-> e, key |-> k]
RaiseE == [op |-> "raise"]
\* a body that reads its environment: the first invocation of the task finds
\* it broken and raises, later invocations find it repaired and evaluate e
RepairedE(e) == [op |-> "repaired", of |-> e]

Rules == {"total", "add", "fib", "fib3", "lookup", "wrap", "loop", "ping", "pong",
          "flaky", "retry"}

\* the default= keyword the Rule was made with; wrap is declared with
\* rule(default=0), the others without
RuleDefault(f) == IF f = "wrap" THEN PInt(0) ELSE NoResult

\* total(xs): return sum(xs)
BodyTotal(a) ==
    IF Len(a) = 1 /\ IsList(a[1]) /\ \A i \in DOMAIN a[1].list : IsInt(a[1].list[i])
    THEN Lit(PInt(SumOf(a[1].list)))
    ELSE RaiseE

\* add(x, y): return total([x, y])
BodyAdd(a) == CallE("total", <<ListE(<<Lit(a[1]), Lit(a[2])>>)>>)

\* fib(n): return n if n < 2 else total([fib(n-1), fib(n-2)])
BodyFib(a) ==
    IF ~IsInt(a[1]) THEN RaiseE
    ELSE IF a[1].int < 2 THEN Lit(a[1])
    ELSE CallE("total", <<ListE(<<CallE("fib", <<Lit(PInt(a[1].int - 1))>>),
                                  CallE("fib", <<Lit(PInt(a[1].int - 2))>>)>>)>>)

\* fib(n) of test_fibonacci3:
\*   [[n]] if n < 2 else [[add(fib(n-1)[0][0], fib(n-2)[0][0])]]
Fib3At(n) == IndexE(IndexE(CallE("fib3", <<Lit(PInt(n))>>), PInt(0)), PInt(0))

BodyFib3(a) ==
    IF ~IsInt(a[1]) THEN RaiseE
    ELSE IF a[1].int < 2 THEN Lit(PList(<<PList(<<a[1]>>)>>))
    ELSE ListE(<<ListE(<<CallE("add", <<Fib3At(a[1].int - 1), Fib3At(a[1].int - 2)>>)>>)>>)

\* lookup(x): return fib(x)
BodyLookup(a) == CallE("fib", <<Lit(a[1])>>)

\* wrap(x): return [fib(x)]
BodyWrap(a) == ListE(<<CallE("fib", <<Lit(a[1])>>)>>)

\* loop(x): return loop(x)
BodyLoop(a) == CallE("loop", <<Lit(a[1])>>)

\* ping(x): return pong(x)  and  pong(x): return ping(x)
BodyPing(a) == CallE("pong", <<Lit(a[1])>>)
BodyPong(a) == CallE("ping", <<Lit(a[1])>>)

\* flaky(x): raise if the environment is broken, else return x
BodyFlaky(a) == RepairedE(Lit(a[1]))

\* retry(x): return flaky(x)
BodyRetry(a) == CallE("flaky", <<Lit(a[1])>>)

Body(f, a) ==
    CASE f = "total" -> BodyTotal(a)
      [] f = "add" -> BodyAdd(a)
      [] f = "fib" -> BodyFib(a)
      [] f = "fib3" -> BodyFib3(a)
      [] f = "lookup" -> BodyLookup(a)
      [] f = "wrap" -> BodyWrap(a)
      [] f = "loop" -> BodyLoop(a)
      [] f = "ping" -> BodyPing(a)
      [] f = "pong" -> BodyPong(a)
      [] f = "flaky" -> BodyFlaky(a)
      [] f = "retry" -> BodyRetry(a)

\* Evaluation of a body expression.  [st, val]; a Rule call is
\* Session.active().create_task(func, *args, **kwargs).
RECURSIVE EvalExpr(_, _), EvalItems(_, _, _)

\* the task whose function is executing
Running(h) == CHOOSE t \in DOMAIN h : h[t].inbody

EvalItems(S, es, acc) ==
    LET Rest(r) == EvalItems(r.st, Tail(es), Append(acc, r.val))
    IN IF es = <<>> \/ ~Ok(S) THEN [st |-> S, val |-> acc]
       ELSE Rest(EvalExpr(S, Head(es)))

EvalExpr(S, e) ==
    LET AsList(r) == [st |-> r.st, val |-> PList(r.val)]
        Made(c) == [st |-> IF Ok(c.st)
                           THEN [c.st EXCEPT !.heap[Running(c.st.heap)].calls =
                                                 Append(@, c.task)]
                           ELSE c.st,
                    val |-> Ref(c.task)]
        CallWith(r) == IF Ok(r.st)
                       THEN Made(create_task(r.st, e.f, r.val, RuleDefault(e.f)))
                       ELSE [st |-> r.st, val |-> NoResult]
        Item(S1) == [st |-> S1, val |-> Ref(Len(S1.heap))]
        At(r) == IF ~Ok(r.st) THEN r
                 ELSE IF IsRef(r.val) THEN Item(GetItem(r.st, r.val.ref, e.key))
                 ELSE IF CanIndex(r.val, e.key)
                 THEN [st |-> r.st, val |-> r.val.list[e.key.int + 1]]
                 ELSE [st |-> Raise(r.st, "RuleError"), val |-> NoResult]
    IN IF e.op = "lit" THEN [st |-> S, val |-> e.v]
       ELSE IF e.op = "raise" THEN [st |-> Raise(S, "RuleError"), val |-> NoResult]
       ELSE IF e.op = "list" THEN AsList(EvalItems(S, e.items, <<>>))
       ELSE IF e.op = "call" THEN CallWith(EvalItems(S, e.args, <<>>))
       ELSE IF e.op = "repaired"
       THEN IF S.heap[Running(S.heap)].runs > 1 THEN EvalExpr(S, e.of)
            ELSE [st |-> Raise(S, "RuleError"), val |-> NoResult]
       ELSE At(EvalExpr(S, e.of))

\* ------------------------------------------------------------------ run_task
\* arg.result(task._default) for every argument
ArgResults(h, t) ==
    [i \in DOMAIN h[t].args |-> Result(h, h[t].args[i], h[t].default)]

\* (variant of Commit: whatever the body returned is set as the result)
CommitNoChain(S, t, val, asc) ==
    IF ~Ready(S.heap, t) THEN S ELSE SetResult(S, t, val, asc)

\* (variant of Commit: no `if not task.ready(): return result`)
CommitUnready(S, t, val, asc) ==
    LET Chain(S1, fut) ==
            IF Done(S1.heap, fut) THEN Raise(S, "AssertionError")
            ELSE Register(
                    AddDoneCallback(
                        [S1 EXCEPT !.heap[t].future_result = fut],
                        fut, [task |-> t]),
                    fut)
        Wrapped(S1) == IF S1.heap[Len(S1.heap)].futures # {}
                       THEN Chain(S1, Len(S1.heap))
                       ELSE SetResult(S, t, val, asc)
    IN IF IsRef(val) THEN Chain(S, val.ref)
       ELSE Wrapped(NewTemplate(S, val))

\* (variant of Commit: a composite is chained whether it embeds futures or not)
CommitViaTemplate(S, t, val, asc) ==
    LET Chain(S1, fut) ==
            IF Done(S1.heap, fut) THEN Raise(S, "AssertionError")
            ELSE Register(
                    AddDoneCallback(
                        [S1 EXCEPT !.heap[t].future_result = fut],
                        fut, [task |-> t]),
                    fut)
        Wrapped(S1) == IF IsList(val)
                       THEN Chain(S1, Len(S1.heap))
                       ELSE SetResult(S, t, val, asc)
    IN IF ~Ready(S.heap, t) THEN S
       ELSE IF IsRef(val) THEN Chain(S, val.ref)
       ELSE Wrapped(NewTemplate(S, val))

\* Session.run_task from `if not task.ready()` on: classify what the body
\* returned and commit it
Commit(S, t, val, asc) ==
    LET Chain(S1, fut) ==
            IF Done(S1.heap, fut) THEN Raise(S, "AssertionError")
            ELSE Register(
                    AddDoneCallback(
                        [S1 EXCEPT !.heap[t].future_result = fut],
                        fut, [task |-> t]),
                    fut)
        Wrapped(S1) == IF S1.heap[Len(S1.heap)].futures # {}
                       THEN Chain(S1, Len(S1.heap))
                       ELSE SetResult(S, t, val, asc)
    IN IF ~Ready(S.heap, t) THEN S
       ELSE IF IsRef(val) THEN Chain(S, val.ref)
       ELSE Wrapped(NewTemplate(S, val))

\* (variant of run_task: an exception of the body is caught and dropped)
run_taskQuiet(S, t, asc) ==
    LET Finish(r) ==
            IF ~Ok(r.st) THEN [r.st EXCEPT !.heap[t].raised = TRUE, !.err = "",
                                           !.heap[t].inbody = FALSE]
            ELSE Commit([r.st EXCEPT !.heap[t].returned = r.val,
                                     !.heap[t].inbody = FALSE], t, r.val, asc)
        Call(vals, allDone) ==
            Finish(EvalExpr([S EXCEPT !.heap[t].runs = @ + 1,
                                      !.heap[t].argsDone = @ /\ allDone,
                                      !.heap[t].passed = vals,
                                      !.heap[t].inbody = TRUE],
                            Body(S.heap[t].func, vals)))
        Pass(a) ==
            IF \E i \in DOMAIN a : ~a[i].ok THEN Raise(S, "FutureNotDone")
            ELSE Call([i \in DOMAIN a |-> a[i].val],
                      \A i \in DOMAIN a : Done(S.heap, S.heap[t].args[i]))
    IN IF Done(S.heap, t) \/ ~Ready(S.heap, t) THEN Raise(S, "AssertionError")
       ELSE Pass(ArgResults(S.heap, t))

\* Session.run_task(task, allow_unfinished): with allow_unfinished the task
\* need not be ready
run_taskAllow(S, t, allow_unfinished, asc) ==
    LET Finish(r) ==
            IF ~Ok(r.st) THEN [r.st EXCEPT !.heap[t].raised = TRUE,
                                           !.heap[t].inbody = FALSE]
            ELSE Commit([r.st EXCEPT !.heap[t].returned = r.val,
                                     !.heap[t].inbody = FALSE], t, r.val, asc)
        Call(vals, allDone) ==
            Finish(EvalExpr([S EXCEPT !.heap[t].runs = @ + 1,
                                      !.heap[t].argsDone = @ /\ allDone,
                                      !.heap[t].passed = vals,
                                      !.heap[t].inbody = TRUE],
                            Body(S.heap[t].func, vals)))
        Pass(a) ==
            IF \E i \in DOMAIN a : ~a[i].ok THEN Raise(S, "FutureNotDone")
            ELSE Call([i \in DOMAIN a |-> a[i].val],
                      \A i \in DOMAIN a : Done(S.heap, S.heap[t].args[i]))
    IN IF Done(S.heap, t) \/ (~allow_unfinished /\ ~Ready(S.heap, t))
       THEN Raise(S, "AssertionError")
       ELSE Pass(ArgResults(S.heap, t))

\* Session.run_task(task), allow_unfinished = False
run_task(S, t, asc) == run_taskAllow(S, t, FALSE, asc)

\* run_task with the value it returns: the function's result when the task
\* is not ready after the call, else None.  [st, val]
RunTaskCall(S, t, allow_unfinished, asc) ==
    LET Returned(S1) ==
            [st |-> S1,
             val |-> IF Ok(S1) /\ ~Ready(S1.heap, t) THEN S1.heap[t].returned
                     ELSE NoResult]
    IN Returned(run_taskAllow(S, t, allow_unfinished, asc))

\* ------------------------------------------------------------------ eval
\* eval's loops `for task in extract_tasks(...): if not task.has_run():
\* task.add_ready_callback(schedule)`
\* (variant of ScheduleAll: no `if not task.has_run()`)
RECURSIVE ScheduleAllEvery(_, _, _)
ScheduleAllEvery(S, ts, asc) ==
    IF ts = <<>> \/ ~Ok(S) THEN S
    ELSE ScheduleAllEvery(
            AddReadyCallback(S, Head(ts), [cb |-> "schedule", eval |-> S.evalNo], asc),
            Tail(ts), asc)

RECURSIVE ScheduleAll(_, _, _)
ScheduleAll(S, ts, asc) ==
    IF ts = <<>> \/ ~Ok(S) THEN S
    ELSE ScheduleAll(
            IF HasRun(S.heap, Head(ts)) THEN S
            ELSE AddReadyCallback(S, Head(ts), [cb |-> "schedule", eval |-> S.evalNo], asc),
            Tail(ts), asc)

\* Session.eval up to the while loop, for an obj that is a HashedFuture or
\* embeds one.  [st, fut]
EvalBegin(S, obj, asc) ==
    LET Watch(S2, fut) ==
            [st |-> ScheduleAll(S2, SeqOf(extract_tasks(S2.heap, fut), asc), asc),
             fut |-> fut]
        Root(S1, fut) == Watch(Register(S1, fut), fut)
        Wrapped(S1) == Root(S1, Len(S1.heap))
        Start(S0) == IF IsRef(obj) THEN Root(S0, obj.ref)
                     ELSE Wrapped(NewTemplate(S0, obj))
    IN Start([S EXCEPT !.evalNo = @ + 1, !.queue = <<>>])

\* (variant of EvalIteration: the queue is popped at the right end)
EvalIterationLifo(S, asc) ==
    LET After(S1, t) ==
            IF ~Ok(S1) \/ Done(S1.heap, t) THEN S1
            ELSE IF ~HasRun(S1.heap, t) THEN Raise(S1, "TaskHasNotRun")
            ELSE ScheduleAll(S1,
                     SeqOf(extract_tasks(S1.heap, S1.heap[t].future_result), asc), asc)
        Pop(S0, t) ==
            After(IF HasRun(S0.heap, t) THEN Raise(S0, "AssertionError")
                  ELSE [run_task([S0 EXCEPT !.tape = t], t, asc) EXCEPT !.tape = None],
                  t)
    IN Pop([S EXCEPT !.queue = SubSeq(@, 1, Len(@) - 1)], S.queue[Len(S.queue)])

\* one iteration of eval's while loop: pop, run under record(task.children),
\* and schedule what the task's future_result waits for.  record's finally
\* resets the tape to None however run_task ends.
EvalIteration(S, asc) ==
    LET After(S1, t) ==
            IF ~Ok(S1) \/ Done(S1.heap, t) THEN S1
            ELSE IF ~HasRun(S1.heap, t) THEN Raise(S1, "TaskHasNotRun")
            ELSE ScheduleAll(S1,
                     SeqOf(extract_tasks(S1.heap, S1.heap[t].future_result), asc), asc)
        Pop(S0, t) ==
            After(IF HasRun(S0.heap, t) THEN Raise(S0, "AssertionError")
                  ELSE [run_task([S0 EXCEPT !.tape = t], t, asc) EXCEPT !.tape = None],
                  t)
    IN Pop([S EXCEPT !.queue = Tail(@)], Head(S.queue))

\* ------------------------------------------------------------------ observers
\* class State(Enum): the members by value.  DONE has the value of READY, and
\* an Enum member defined with the value of an earlier one is an alias of it:
\* State.DONE is State.READY.
UNREGISTERED == -1
PENDING == 0
READY == 1
RUNNING == 2
HAS_RUN == 3
DONE == 1

\* Future.state
FutureState(h, f) ==
    IF Done(h, f) THEN DONE
    ELSE IF Ready(h, f) THEN READY
    ELSE IF h[f].registered THEN PENDING
    ELSE UNREGISTERED

\* Task.state
TaskState(h, f) ==
    LET Adjust(state) == IF state = READY /\ HasRun(h, f) THEN HAS_RUN ELSE state
    IN Adjust(FutureState(h, f))

\* fut.state, dispatched on the class
StateOf(h, f) == IF h[f].kind = "Task" THEN TaskState(h, f) ELSE FutureState(h, f)

\* (variant of FutureResult: no `if self.done()` branch)
FutureResultNoDone(h, t) ==
    IF ~HasRun(h, t) THEN [ok |-> FALSE, err |-> "TaskHasNotRun", val |-> None]
    ELSE IF h[t].future_result = None
    THEN [ok |-> FALSE, err |-> "AssertionError", val |-> None]
    ELSE [ok |-> TRUE, err |-> "", val |-> h[t].future_result]

\* Task.future_result(): [ok, err, val]
FutureResult(h, t) ==
    IF ~HasRun(h, t) THEN [ok |-> FALSE, err |-> "TaskHasNotRun", val |-> None]
    ELSE IF Done(h, t)
    THEN [ok |-> FALSE,
          err |-> IF h[t].future_result = None THEN "TaskIsDone" ELSE "AssertionError",
          val |-> None]
    ELSE IF h[t].future_result = None
    THEN [ok |-> FALSE, err |-> "AssertionError", val |-> None]
    ELSE [ok |-> TRUE, err |-> "", val |-> h[t].future_result]

\* ------------------------------------------------------------------ actions
\* ret: which call ended last (op), on which future (id) or value (arg), and
\* how: it returned a future (id), returned a value (val) or raised (err)
NoRet == [op |-> "", kind |-> "none", val |-> NoResult, err |-> "",
          id |-> None, arg |-> NoResult]
RetFuture(op, t) == [NoRet EXCEPT !.op = op, !.kind = "future", !.id = t]
RetValue(op, v, f, arg) ==
    [NoRet EXCEPT !.op = op, !.kind = "value", !.val = v, !.id = f, !.arg = arg]
RetError(op, e, f) == [NoRet EXCEPT !.op = op, !.kind = "error", !.err = e, !.id = f]

\* ------------------------------------------------------------------ workers
\* The legacy workers of caflib: LocalWorker processes (verify_lock = True,
\* not dry, no limit) working on one task root.  Every file-system call is a
\* step of its own; the workers interleave between any two.
\* number of worker processes
MaxWorkers == 2
\* number of task directories under the root
MaxDirs == 2
Workers == 1..MaxWorkers
Dirs == 1..MaxDirs

\* get_children(taskpath): the file .caf/children; every task but the first
\* has the task before it as its child
get_children(t) == IF t > 1 THEN {t - 1} ELSE {}

\* the workers have not been started: each has the whole list of tasks in its
\* queue, no task is sealed, in error or locked
WorkersInit ==
    /\ seal = [t \in Dirs |-> FALSE]
    /\ error = [t \in Dirs |-> FALSE]
    /\ lock = [t \in Dirs |-> FALSE]
    /\ wqueue = [w \in Workers |-> [i \in 1..MaxDirs |-> MaxDirs + 1 - i]]
    /\ skipped = [w \in Workers |-> {}]
    /\ current_taskid = [w \in Workers |-> None]
    /\ wpc = [w \in Workers |-> "get_task"]

\* Worker.tasks: get_task pops the queue; no task left, or a task that was
\* skipped before (put back), ends the worker: get_locked_task yields
\* (None, None) with no lockpath and locked_tasks returns
GetTask(w) ==
    LET Pop(t) ==
            IF t \in skipped[w]
            THEN /\ wqueue' = [wqueue EXCEPT ![w] = Append(Tail(@), t)]
                 /\ wpc' = [wpc EXCEPT ![w] = "quit"]
                 /\ UNCHANGED current_taskid
            ELSE /\ wqueue' = [wqueue EXCEPT ![w] = Tail(@)]
                 /\ current_taskid' = [current_taskid EXCEPT ![w] = t]
                 /\ wpc' = [wpc EXCEPT ![w] = "seal"]
    IN /\ wpc[w] = "get_task"
       /\ IF wqueue[w] = <<>>
          THEN /\ wpc' = [wpc EXCEPT ![w] = "quit"]
               /\ UNCHANGED <<wqueue, current_taskid>>
          ELSE Pop(Head(wqueue[w]))
       /\ UNCHANGED <<seal, error, lock, skipped, evars, hvars>>

\* `if (taskpath/'.caf/seal').is_file()`: a sealed task is passed over
CheckSeal(w) ==
    /\ wpc[w] = "seal"
    /\ wpc' = [wpc EXCEPT ![w] = IF seal[current_taskid[w]] THEN "get_task" ELSE "error"]
    /\ UNCHANGED <<seal, error, lock, wqueue, skipped, current_taskid, evars, hvars>>

\* `elif (taskpath/'.caf/error').is_file() and self.verify_lock`
CheckError(w) ==
    /\ wpc[w] = "error"
    /\ wpc' = [wpc EXCEPT ![w] = IF error[current_taskid[w]] THEN "get_task"
                                 ELSE "children"]
    /\ UNCHANGED <<seal, error, lock, wqueue, skipped, current_taskid, evars, hvars>>

\* `elif not all(seal of the children) and not self.dry`: put back, skipped
CheckChildren(w) ==
    /\ wpc[w] = "children"
    /\ IF \E c \in get_children(current_taskid[w]) : ~seal[c]
       THEN /\ wqueue' = [wqueue EXCEPT ![w] = Append(@, current_taskid[w])]
            /\ skipped' = [skipped EXCEPT ![w] = @ \cup {current_taskid[w]}]
            /\ wpc' = [wpc EXCEPT ![w] = "get_task"]
       ELSE /\ wpc' = [wpc EXCEPT ![w] = "mkdir"]
            /\ UNCHANGED <<wqueue, skipped>>
    /\ UNCHANGED <<seal, error, lock, current_taskid, evars, hvars>>

\* lockpath.mkdir(): it raises OSError when the directory exists, and the
\* worker goes on to the next task; else the lock is acquired, the task is
\* yielded and work calls run_command
Mkdir(w) ==
    /\ wpc[w] = "mkdir"
    /\ IF lock[current_taskid[w]]
       THEN /\ wpc' = [wpc EXCEPT ![w] = "get_task"]
            /\ UNCHANGED lock
       ELSE /\ lock' = [lock EXCEPT ![current_taskid[w]] = TRUE]
            /\ wpc' = [wpc EXCEPT ![w] = "command"]
    /\ UNCHANGED <<seal, error, wqueue, skipped, current_taskid, evars, hvars>>

\* run_command: subprocess.check_call runs the task's command to its end; a
\* nonzero exit writes .caf/error, a zero exit writes .caf/seal
RunCommand(w, ok) ==
    /\ wpc[w] = "command"
    /\ IF ok
       THEN /\ seal' = [seal EXCEPT ![current_taskid[w]] = TRUE]
            /\ wpc' = [wpc EXCEPT ![w] = "unlink"]
            /\ UNCHANGED error
       ELSE /\ error' = [error EXCEPT ![current_taskid[w]] = TRUE]
            /\ wpc' = [wpc EXCEPT ![w] = "rmdir"]
            /\ UNCHANGED seal
    /\ UNCHANGED <<lock, wqueue, skipped, current_taskid, evars, hvars>>

\* `if Path('.caf/error').is_file(): Path('.caf/error').unlink()`
UnlinkError(w) ==
    /\ wpc[w] = "unlink"
    /\ error' = [error EXCEPT ![current_taskid[w]] = FALSE]
    /\ wpc' = [wpc EXCEPT ![w] = "rmdir"]
    /\ UNCHANGED <<seal, lock, wqueue, skipped, current_taskid, evars, hvars>>

\* get_locked_task's finally: lockpath.rmdir(); locked_tasks then calls
\* get_locked_task again, with a new skipped set
Rmdir(w) ==
    /\ wpc[w] = "rmdir"
    /\ lock' = [lock EXCEPT ![current_taskid[w]] = FALSE]
    /\ skipped' = [skipped EXCEPT ![w] = {}]
    /\ wpc' = [wpc EXCEPT ![w] = "get_task"]
    /\ UNCHANGED <<seal, error, wqueue, current_taskid, evars, hvars>>

NextWorkers ==
    \/ \E w \in Workers : GetTask(w)
    \/ \E w \in Workers : CheckSeal(w)
    \/ \E w \in Workers : CheckError(w)
    \/ \E w \in Workers : CheckChildren(w)
    \/ \E w \in Workers : Mkdir(w)
    \/ \E w \in Workers, ok \in BOOLEAN : RunCommand(w, ok)
    \/ \E w \in Workers : UnlinkError(w)
    \/ \E w \in Workers : Rmdir(w)

\* ------------------------------------------------------------------ hash_function
\* The functions of a program, by identity; the globals of each refer to
\* functions of the program (none of the standard library, none with a
\* version).
\* number of functions
MaxFuncs == 2
\* frames of hash_function the interpreter allows (the recursion limit)
MaxDepth == 4
Funcs == 1..MaxFuncs

\* ast_code_of(func): the dump of the function's AST; the functions of the
\* program have different sources
ast_code_of(f) == [ast |-> f]

\* no function has been hashed
HashIdle ==
    /\ cache = [f \in Funcs |-> NoResult]
    /\ hstack = <<>>
    /\ hret = NoRet

\* a program whose functions refer to no function
HashInit ==
    /\ globals_of = [f \in Funcs |-> {}]
    /\ HashIdle

\* hash_function up to hashed_globals_of's loop: a frame with the items still
\* to be hashed and the dict hashed_globals
Frame(f) == [func |-> f, items |-> SeqOf(globals_of[f], TRUE), hashed_globals |-> {}]

\* hashed_globals[name] = f'function:{hashid}'
Hashed(fr, name, hashid) ==
    [fr EXCEPT !.items = Tail(@),
               !.hashed_globals = @ \cup {[name |-> name, function |-> hashid]}]

\* hash_text(json.dumps({'ast_code': ast_code, 'globals': hashed_globals}))
SpecHashOf(fr) ==
    hash_text([ast_code |-> ast_code_of(fr.func), globals |-> fr.hashed_globals])

\* hash_function(f) called by client code: the cached hash, or a first frame
HashFunction(f) ==
    /\ hstack = <<>>
    /\ IF cache[f] # NoResult
       THEN /\ hret' = RetValue("hash_function", cache[f], f, NoResult)
            /\ UNCHANGED hstack
       ELSE /\ hstack' = <<Frame(f)>>
            /\ hret' = NoRet
    /\ UNCHANGED <<globals_of, cache, evars, wvars>>

\* one item of hashed_globals_of's loop in the innermost frame: the function
\* itself is 'self'; another function is hashed by hash_function, from the
\* cache or in a new frame; beyond the recursion limit the interpreter
\* raises RecursionError, which no frame catches
HashGlobal ==
    LET Item(fr, d, obj) ==
            IF obj = fr.func
            THEN /\ hstack' = [hstack EXCEPT ![d] = Hashed(fr, obj, "self")]
                 /\ UNCHANGED hret
            ELSE IF cache[obj] # NoResult
            THEN /\ hstack' = [hstack EXCEPT ![d] = Hashed(fr, obj, cache[obj])]
                 /\ UNCHANGED hret
            ELSE IF d >= MaxDepth
            THEN /\ hstack' = <<>>
                 /\ hret' = RetError("hash_function", "RecursionError", hstack[1].func)
            ELSE /\ hstack' = Append(hstack, Frame(obj))
                 /\ UNCHANGED hret
        Top(fr) == Item(fr, Len(hstack), Head(fr.items))
    IN /\ hstack # <<>>
       /\ hstack[Len(hstack)].items # <<>>
       /\ Top(hstack[Len(hstack)])
       /\ UNCHANGED <<globals_of, cache, evars, wvars>>

\* the innermost frame has hashed its globals: `return
\* _cache.setdefault(func, hash_text(spec))`, to the frame that called or to
\* client code
HashReturn ==
    LET Give(fr, d, hashid) ==
            /\ cache' = [cache EXCEPT ![fr.func] = hashid]
            /\ IF d = 1
               THEN /\ hstack' = <<>>
                    /\ hret' = RetValue("hash_function", hashid, fr.func, NoResult)
               ELSE /\ hstack' = [SubSeq(hstack, 1, d - 1) EXCEPT
                                      ![d - 1] = Hashed(@, fr.func, hashid)]
                    /\ UNCHANGED hret
        Top(fr) == Give(fr, Len(hstack),
                        IF cache[fr.func] # NoResult THEN cache[fr.func]
                        ELSE SpecHashOf(fr))
    IN /\ hstack # <<>>
       /\ hstack[Len(hstack)].items = <<>>
       /\ Top(hstack[Len(hstack)])
       /\ UNCHANGED <<globals_of, evars, wvars>>

NextFuncs ==
    \/ \E f \in Funcs : HashFunction(f)
    \/ HashGlobal
    \/ HashReturn

Init ==
    /\ heap = <<>>
    /\ tasks = {}
    /\ task_tape = None
    /\ queue = <<>>
    /\ pc = "idle"
    /\ root = None
    /\ evalNo = 0
    /\ held = {}
    /\ ret = NoRet
    /\ active = Sess
    /\ scopes = <<>>
    /\ WorkersInit
    /\ HashInit

Apply(S) ==
    /\ heap' = S.heap
    /\ tasks' = S.tasks
    /\ task_tape' = S.tape
    /\ queue' = S.queue
    /\ evalNo' = S.evalNo

\* the futures client code passes on: those it created
Handles == held
\* those of them that can be indexed and embedded in a composite
Indexable == Handles \cap (Tasks(heap) \cup Indexors(heap))

\* client code keeps every object it creates, and creates at most MaxOps
Keep(S) ==
    /\ Len(S.heap) > Len(heap) => Cardinality(held) < MaxOps
    /\ held' = IF Len(S.heap) > Len(heap) THEN held \cup {Len(S.heap)} ELSE held

\* (variant of CallRule: create_task of the session whether entered or not)
CallRuleAnywhere(f, objs) ==
    LET Return(c) == /\ IF Ok(c.st) THEN Keep(c.st) ELSE held' = held
                     /\ Apply(c.st)
                     /\ ret' = IF Ok(c.st) THEN RetFuture("call", c.task)
                               ELSE RetError("call", c.st.err, None)
    IN /\ pc = "idle"
       /\ active # Other
       /\ Return(create_task(Here, f, objs, RuleDefault(f)))
       /\ UNCHANGED <<pc, root, active, scopes, ovars>>

\* Rule.__call__ in client code, outside eval: Session.active() raises
\* NoActiveSession when no session is entered, else create_task of the active
\* session.  Calls made while Other is entered are not among the inputs.  A
\* candidate of a call that raised is garbage.
CallRule(f, objs) ==
    LET Return(c) == /\ IF Ok(c.st) THEN Keep(c.st) ELSE held' = held
                     /\ Apply(c.st)
                     /\ ret' = IF Ok(c.st) THEN RetFuture("call", c.task)
                               ELSE RetError("call", c.st.err, None)
    IN /\ pc = "idle"
       /\ active # Other
       /\ IF active = None
          THEN /\ ret' = RetError("call", "NoActiveSession", None)
               /\ UNCHANGED <<heap, tasks, task_tape, queue, evalNo, held>>
          ELSE Return(create_task(Here, f, objs, RuleDefault(f)))
       /\ UNCHANGED <<pc, root, active, scopes, ovars>>

\* task[key] / indexor[key] in client code
Index(f, key) ==
    LET Return(S) == /\ Keep(S)
                     /\ Apply(S)
                     /\ ret' = IF Ok(S) THEN RetFuture("index", Len(S.heap))
                               ELSE RetError("index", S.err, f)
    IN /\ pc = "idle"
       /\ Return(GetItem(Here, f, key))
       /\ UNCHANGED <<pc, root, active, scopes, ovars>>

\* Template.from_object(obj) in client code
MakeTemplate(obj) ==
    LET Return(S) == /\ Keep(S)
                     /\ Apply(S)
                     /\ ret' = RetFuture("template", Len(S.heap))
    IN /\ pc = "idle"
       /\ Return(NewTemplate(Here, obj))
       /\ UNCHANGED <<pc, root, active, scopes, ovars>>

\* fut.set_result(v) in client code on a future the session does not complete
\* itself at that point: a done future or one that is not ready
ClientSetResult(f, v) ==
    LET Return(S) == /\ Apply([S EXCEPT !.err = ""])
                     /\ ret' = IF Ok(S) THEN RetValue("set_result", v, f, NoResult)
                               ELSE RetError("set_result", S.err, f)
    IN /\ pc = "idle"
       /\ Done(heap, f) \/ ~Ready(heap, f)
       /\ Return(SetResult(Here, f, v, TRUE))
       /\ UNCHANGED <<pc, root, held, active, scopes, ovars>>

\* (variant of EvalPlain: the Template is returned, not obj)
EvalPlainTemplate(obj) ==
    LET Return(S) == /\ S.heap[Len(S.heap)].futures = {}
                     /\ heap' = S.heap
                     /\ ret' = RetFuture("eval", Len(S.heap))
    IN /\ pc = "idle"
       /\ ~IsRef(obj)
       /\ Return(NewTemplate(Here, obj))
       /\ UNCHANGED <<tasks, task_tape, queue, pc, root, evalNo, held, active, scopes, ovars>>

\* eval(obj) of a plain value: `if not template.has_futures(): return obj`
EvalPlain(obj) ==
    LET Return(S) == /\ S.heap[Len(S.heap)].futures = {}
                     /\ ret' = RetValue("eval", obj, None, obj)
    IN /\ pc = "idle"
       /\ ~IsRef(obj)
       /\ Return(NewTemplate(Here, obj))
       /\ UNCHANGED <<heap, tasks, task_tape, queue, pc, root, evalNo, held, active, scopes, ovars>>

\* Sess.eval(obj) of a future or of a composite embedding futures, up to the
\* loop; client code calls it inside `with Sess`
EvalStart(obj, asc) ==
    LET Enter(b) == /\ Apply([b.st EXCEPT !.err = ""])
                    /\ root' = b.fut
                    /\ pc' = IF Ok(b.st) THEN "eval" ELSE "idle"
                    /\ ret' = IF Ok(b.st) THEN NoRet ELSE RetError("eval", b.st.err, b.fut)
    IN /\ pc = "idle"
       /\ evalNo < MaxEvals
       /\ active = Sess
       /\ FuturesIn(obj) # {}
       /\ Enter(EvalBegin(Here, obj, asc))
       /\ UNCHANGED <<held, active, scopes, ovars>>

\* one iteration of `while queue:`; an exception leaves eval
EvalStep(asc) ==
    LET Loop(S) == /\ Apply([S EXCEPT !.err = "", !.queue = IF Ok(S) THEN @ ELSE <<>>])
                   /\ pc' = IF Ok(S) THEN "eval" ELSE "idle"
                   /\ ret' = IF Ok(S) THEN ret ELSE RetError("eval", S.err, root)
    IN /\ pc = "eval"
       /\ queue # <<>>
       /\ Loop(EvalIteration(Here, asc))
       /\ UNCHANGED <<root, held, active, scopes, ovars>>

\* `return fut.result()` once the queue is empty
EvalReturn ==
    LET Return(r) == ret' = IF r.ok THEN RetValue("eval", r.val, root, NoResult)
                            ELSE RetError("eval", "FutureNotDone", root)
    IN /\ pc = "eval"
       /\ queue = <<>>
       /\ pc' = "idle"
       /\ Return(Result(heap, root, NoResult))
       /\ UNCHANGED <<heap, tasks, task_tape, queue, root, evalNo, held, active, scopes, ovars>>

\* what client code passes
IntRules == {"fib", "fib3", "lookup"}
RefRules == {"wrap"}
EvalObjs ==
    {Ref(f) : f \in Handles}
        \cup {PList(<<Ref(a), Ref(b)>>) : a, b \in held \cap Indexable}
PlainObjs == {PInt(MaxN), PList(<<PInt(0), PList(<<>>)>>)}

Next ==
    \/ \E f \in IntRules, n \in 0..MaxN : CallRule(f, <<PInt(n)>>)
    \/ \E f \in RefRules, x \in Indexable : CallRule(f, <<Ref(x)>>)
    \/ \E f \in Indexable, k \in 0..MaxKey : Index(f, PInt(k))
    \/ \E f \in Indexable : MakeTemplate(PList(<<Ref(f)>>))
    \/ \E f \in Handles : ClientSetResult(f, PInt(MaxN + 1))
    \/ \E obj \in PlainObjs : EvalPlain(obj)
    \/ \E obj \in EvalObjs, asc \in BOOLEAN : EvalStart(obj, asc)
    \/ \E asc \in BOOLEAN : EvalStep(asc)
    \/ EvalReturn

Spec == Init /\ [][Next]_vars

\* the Fibonacci scenario of test_fibonacci: a fresh session, fib(n), eval
FibCall(n) == heap = <<>> /\ CallRule("fib", <<PInt(n)>>)
FibEval(asc) == evalNo = 0 /\ \E t \in held : EvalStart(Ref(t), asc)

NextFib ==
    \/ \E n \in 0..MaxFib : FibCall(n)
    \/ \E asc \in BOOLEAN : FibEval(asc)
    \/ \E asc \in BOOLEAN : EvalStep(asc)
    \/ EvalReturn

SpecFib == Init /\ [][NextFib]_vars

\* ------------------------------------------------------------------ lifecycle
\* (variant of SessionEnter: no `assert Session._active is None`)
SessionEnterNested(s) ==
    /\ pc = "idle"
    /\ active' = s
    /\ ret' = RetValue("enter", NoResult, s, NoResult)
    /\ UNCHANGED <<heap, tasks, task_tape, queue, pc, root, evalNo, held, scopes, ovars>>

\* Session.__enter__ of the Session object s
SessionEnter(s) ==
    /\ pc = "idle"
    /\ IF active # None
       THEN /\ ret' = RetError("enter", "AssertionError", s)
            /\ UNCHANGED active
       ELSE /\ active' = s
            /\ ret' = RetValue("enter", NoResult, s, NoResult)
    /\ UNCHANGED <<heap, tasks, task_tape, queue, pc, root, evalNo, held, scopes, ovars>>

\* Session.__exit__ of the Session object s, called by the with statement
\* that entered it
SessionExit(s) ==
    /\ pc = "idle"
    /\ active = s
    /\ active' = None
    /\ tasks' = IF s = Sess THEN {} ELSE tasks
    /\ ret' = RetValue("exit", NoResult, s, NoResult)
    /\ UNCHANGED <<heap, task_tape, queue, pc, root, evalNo, held, scopes, ovars>>

\* Sess.create_task(func, *args, default=default) called on the Session object
\* itself, entered or not
DirectCreate(f, objs, default) ==
    LET Return(c) == /\ IF Ok(c.st) THEN Keep(c.st) ELSE held' = held
                     /\ Apply(c.st)
                     /\ ret' = IF Ok(c.st) THEN RetFuture("create", c.task)
                               ELSE RetError("create", c.st.err, None)
    IN /\ pc = "idle"
       /\ Return(create_task(Here, f, objs, default))
       /\ UNCHANGED <<pc, root, active, scopes, ovars>>

\* fut.state read by client code
QueryState(f) ==
    /\ pc = "idle"
    /\ ret' = RetValue("state", [state |-> StateOf(heap, f)], f, NoResult)
    /\ UNCHANGED <<heap, tasks, task_tape, queue, pc, root, evalNo, held, active, scopes, ovars>>

\* fut.result() / fut.result(default) called by client code
QueryResult(f, default) ==
    LET Return(r) == ret' = IF r.ok THEN RetValue("result", r.val, f, default)
                            ELSE [RetError("result", "FutureNotDone", f) EXCEPT
                                      !.arg = default]
    IN /\ pc = "idle"
       /\ Return(Result(heap, f, default))
       /\ UNCHANGED <<heap, tasks, task_tape, queue, pc, root, evalNo, held, active, scopes, ovars>>

\* task.future_result() called by client code
QueryFutureResult(t) ==
    LET Return(r) == ret' = IF r.ok THEN RetValue("future_result", Ref(r.val), t, NoResult)
                            ELSE RetError("future_result", r.err, t)
    IN /\ pc = "idle"
       /\ Return(FutureResult(heap, t))
       /\ UNCHANGED <<heap, tasks, task_tape, queue, pc, root, evalNo, held, active, scopes, ovars>>

\* a program that creates Session objects, enters and leaves them, calls
\* rules inside and outside of them and reads its futures
InitLife ==
    /\ heap = <<>>
    /\ tasks = {}
    /\ task_tape = None
    /\ queue = <<>>
    /\ pc = "idle"
    /\ root = None
    /\ evalNo = 0
    /\ held = {}
    /\ ret = NoRet
    /\ active = None
    /\ scopes = <<>>
    /\ WorkersInit
    /\ HashInit

Defaults == {NoResult, PInt(MaxN + 1)}

NextLife ==
    \/ \E s \in {Sess, Other} : SessionEnter(s)
    \/ \E s \in {Sess, Other} : SessionExit(s)
    \/ CallRule("fib3", <<PInt(0)>>)
    \/ \E x \in Indexable : CallRule("lookup", <<Ref(x)>>)
    \/ \E x \in Indexable : CallRule("total", <<PList(<<Ref(x)>>)>>)
    \/ \E d \in Defaults : DirectCreate("fib3", <<PInt(1)>>, d)
    \/ \E f \in Indexable : Index(f, PInt(0))
    \/ \E f \in Handles : QueryState(f)
    \/ \E f \in Handles, d \in Defaults : QueryResult(f, d)
    \/ \E t \in Handles \cap Tasks(heap) : QueryFutureResult(t)
    \/ \E f \in Handles, asc \in BOOLEAN : EvalStart(Ref(f), asc)
    \/ \E asc \in BOOLEAN : EvalStep(asc)
    \/ EvalReturn

SpecLife == InitLife /\ [][NextLife]_vars

\* ------------------------------------------------------------------ hashids
\* A client that indexes a task with integer and string keys and embeds the
\* indexors in a composite.
\* number of Indexors the client creates
MaxIdx == 3
\* the keys the client indexes with: 0, '0' and '0/0'
HashKeys == {PInt(0), PStr(<<"0">>), PStr(<<"0", "/", "0">>)}

\* task[key] / indexor[key] in client code, with a key of any type
IndexKey(f, key) ==
    LET Return(S) == /\ held' = held \cup {Len(S.heap)}
                     /\ Apply(S)
                     /\ ret' = RetFuture("index", Len(S.heap))
    IN /\ pc = "idle"
       /\ Cardinality(Indexors(heap)) < MaxIdx
       /\ Return(GetItem(Here, f, key))
       /\ UNCHANGED <<pc, root, active, scopes, ovars>>

\* Template.from_object([a, b]) in client code, once
PairTemplate(a, b) ==
    LET Return(S) == /\ held' = held \cup {Len(S.heap)}
                     /\ Apply(S)
                     /\ ret' = RetFuture("template", Len(S.heap))
    IN /\ pc = "idle"
       /\ held \cap Templates(heap) = {}
       /\ Return(NewTemplate(Here, PList(<<Ref(a), Ref(b)>>)))
       /\ UNCHANGED <<pc, root, active, scopes, ovars>>

NextHash ==
    \/ CallRule("fib3", <<PInt(0)>>)
    \/ \E f \in Indexable, k \in HashKeys : IndexKey(f, k)
    \/ \E a, b \in held \cap Indexors(heap) : PairTemplate(a, b)
    \/ \E f \in held \cap Templates(heap), asc \in BOOLEAN : EvalStart(Ref(f), asc)
    \/ \E asc \in BOOLEAN : EvalStep(asc)
    \/ EvalReturn

SpecHash == Init /\ [][NextHash]_vars

\* ------------------------------------------------------------------ wiring
\* A client that also uses the futures' own interface: it constructs a Task
\* itself, registers futures and adds ready callbacks.
\* number of ready callbacks the client adds to one future
MaxCbs == 2
\* number of done callbacks the client adds to one future
MaxDoneCbs == 2

\* a bool returned to client code
PBool(b) == [bool |-> b]

\* Task(func, *args) constructed by client code, once
ClientNewTask(f, objs) ==
    LET Return(S) == /\ held' = held \cup {Len(S.heap)}
                     /\ Apply(S)
                     /\ ret' = RetFuture("task", Len(S.heap))
    IN /\ pc = "idle"
       /\ Tasks(heap) \subseteq tasks
       /\ Return(NewTask(Here, f, objs, NoResult))
       /\ UNCHANGED <<pc, root, active, scopes, ovars>>

\* fut.register() in client code
ClientRegister(f) ==
    LET Return(r) == /\ Apply(r.st)
                     /\ ret' = RetValue("register", PBool(r.ok), f, NoResult)
    IN /\ pc = "idle"
       /\ Return(RegisterCall(Here, f))
       /\ UNCHANGED <<pc, root, held, active, scopes, ovars>>

\* fut.add_ready_callback(cb) in client code, cb a function that takes note of
\* its call and returns
ClientAddReadyCallback(f) ==
    LET Return(S) == /\ Apply([S EXCEPT !.err = ""])
                     /\ ret' = IF Ok(S)
                               THEN RetValue("add_ready_callback", NoResult, f, NoResult)
                               ELSE RetError("add_ready_callback", S.err, f)
    IN /\ pc = "idle"
       /\ Cardinality({i \in DOMAIN heap[f].added : heap[f].added[i].cb = "client"}) < MaxCbs
       /\ Return(AddReadyCallback(Here, f,
                    [cb |-> "client", eval |-> Len(heap[f].added)], TRUE))
       /\ UNCHANGED <<pc, root, held, active, scopes, ovars>>

\* fut.add_done_callback(cb) in client code, cb a function that takes note of
\* its call and returns
ClientAddDoneCallback(f) ==
    LET Return(S) == /\ Apply([S EXCEPT !.err = ""])
                     /\ ret' = IF Ok(S)
                               THEN RetValue("add_done_callback", NoResult, f, NoResult)
                               ELSE RetError("add_done_callback", S.err, f)
    IN /\ pc = "idle"
       /\ Len(heap[f].done_callbacks) < MaxDoneCbs
       /\ Return(AddDoneCallback(Here, f,
                    [task |-> None, no |-> Len(heap[f].done_callbacks)]))
       /\ UNCHANGED <<pc, root, held, active, scopes, ovars>>

NextWire ==
    \/ CallRule("fib3", <<PInt(0)>>)
    \/ \E f \in Indexable, k \in 0..MaxKey : Index(f, PInt(k))
    \/ \E x \in Indexable : ClientNewTask("total", <<PList(<<Ref(x)>>)>>)
    \/ \E f \in Handles : ClientRegister(f)
    \/ \E f \in Handles \cap Indexors(heap) : ClientAddReadyCallback(f)
    \/ \E f \in Handles \cap Indexors(heap) : ClientAddDoneCallback(f)
    \/ \E f \in Handles, asc \in BOOLEAN : EvalStart(Ref(f), asc)
    \/ \E asc \in BOOLEAN : EvalStep(asc)
    \/ EvalReturn

SpecWire == Init /\ [][NextWire]_vars

\* ------------------------------------------------------------------ record
\* A client that opens record() scopes of its own, on the children lists of
\* its tasks, and calls rules and eval inside them.
\* depth of nested record scopes
MaxScopes == 2
\* length up to which a recording list grows
MaxTape == 2

\* Rule.__call__ in client code, while the active tape has room
CallInScope(f, objs) ==
    /\ task_tape # None => Len(heap[task_tape].tchildren) < MaxTape
    /\ CallRule(f, objs)

\* `with sess.record(t.children):` entered by client code
RecordEnter(t) ==
    /\ pc = "idle"
    /\ Len(scopes) < MaxScopes
    /\ scopes' = Append(scopes, task_tape)
    /\ task_tape' = t
    /\ ret' = RetValue("record", NoResult, t, NoResult)
    /\ UNCHANGED <<heap, tasks, queue, pc, root, evalNo, held, active, ovars>>

\* the innermost record scope of client code is left, by its last statement
\* or by an exception: record's finally clause
RecordExit ==
    /\ pc = "idle"
    /\ scopes # <<>>
    /\ scopes' = SubSeq(scopes, 1, Len(scopes) - 1)
    /\ task_tape' = None
    /\ ret' = RetValue("record_exit", NoResult, None, NoResult)
    /\ UNCHANGED <<heap, tasks, queue, pc, root, evalNo, held, active, ovars>>

NextTape ==
    \/ \E n \in 0..1 : CallInScope("fib3", <<PInt(n)>>)
    \/ \E t \in Handles \cap Tasks(heap) : RecordEnter(t)
    \/ RecordExit
    \/ \E f \in Handles, asc \in BOOLEAN : EvalStart(Ref(f), asc)
    \/ \E asc \in BOOLEAN : EvalStep(asc)
    \/ EvalReturn

SpecTape == Init /\ [][NextTape]_vars

\* ------------------------------------------------------------------ substitute
\* A client that builds Templates over its futures and calls substitute on
\* them, with and without a default, while the futures are being evaluated.
\* number of Templates the client builds
MaxTmpl == 1

\* Template.from_object(obj) in client code, at most MaxTmpl times
BuildTemplate(obj) ==
    LET Return(S) == /\ held' = held \cup {Len(S.heap)}
                     /\ Apply(S)
                     /\ ret' = RetFuture("template", Len(S.heap))
    IN /\ pc = "idle"
       /\ Cardinality(held \cap Templates(heap)) < MaxTmpl
       /\ Return(NewTemplate(Here, obj))
       /\ UNCHANGED <<pc, root, active, scopes, ovars>>

\* tmpl.substitute() / tmpl.substitute(default) called by client code
QuerySubstitute(T, default) ==
    LET Return(r) == ret' = IF r.ok THEN RetValue("substitute", r.val, T, default)
                            ELSE [RetError("substitute", "FutureNotDone", T) EXCEPT
                                      !.arg = default]
    IN /\ pc = "idle"
       /\ Return(Substitute(heap, T, default))
       /\ UNCHANGED <<heap, tasks, task_tape, queue, pc, root, evalNo, held, active, scopes, ovars>>

\* number of times client code runs one task itself
MaxRuns == 1

\* sess.run_task(task) / sess.run_task(task, allow_unfinished=True) called by
\* client code, outside eval and outside any record scope
ClientRunTask(t, allow_unfinished, asc) ==
    LET Return(r) == /\ Apply([r.st EXCEPT !.err = ""])
                     /\ ret' = IF Ok(r.st)
                               THEN RetValue("run_task", r.val, t, PBool(allow_unfinished))
                               ELSE [RetError("run_task", r.st.err, t) EXCEPT
                                         !.arg = PBool(allow_unfinished)]
    IN /\ pc = "idle"
       /\ active = Sess
       /\ heap[t].runs < MaxRuns
       /\ Return(RunTaskCall(Here, t, allow_unfinished, asc))
       /\ UNCHANGED <<pc, root, held, active, scopes, ovars>>

\* task[key] / indexor[key] in client code, for an element it has not taken
\* before
IndexNew(f, key) ==
    /\ \A i \in Indexors(heap) :
          heap[i].hashid # IndexorHashid(heap[IF heap[f].kind = "Task" THEN f
                                                ELSE heap[f].task].hashid,
                                         Append(heap[f].keys, key))
    /\ IndexKey(f, key)

NextSubst ==
    \/ CallRule("fib3", <<PInt(0)>>)
    \/ CallRule("lookup", <<PInt(0)>>)
    \/ \E t \in Handles \cap Tasks(heap) : heap[t].func = "fib3" /\ IndexNew(t, PInt(0))
    \/ \E a \in Handles \cap Indexors(heap), b \in Handles \cap Tasks(heap) :
          BuildTemplate(PList(<<Ref(a), Ref(b)>>))
    \/ \E T \in held \cap Templates(heap), d \in Defaults : QuerySubstitute(T, d)
    \/ \E t \in Handles \cap Tasks(heap), asc \in BOOLEAN : ClientRunTask(t, FALSE, asc)

SpecSubst == Init /\ [][NextSubst]_vars

\* ------------------------------------------------------------------ run_task
\* A client that runs its tasks itself, ready or not, with and without
\* allow_unfinished.
NextRun ==
    \/ CallRule("lookup", <<PInt(0)>>)
    \/ CallRule("fib3", <<PInt(0)>>)
    \/ \E x \in Indexable : CallRule("wrap", <<Ref(x)>>)
    \/ \E t \in Handles \cap Tasks(heap) : IndexNew(t, PInt(0))
    \/ \E f \in Handles \cap Indexors(heap) : ClientRegister(f)
    \/ \E t \in Handles \cap Tasks(heap), allow \in BOOLEAN, asc \in BOOLEAN :
          ClientRunTask(t, allow, asc)

SpecRun == Init /\ [][NextRun]_vars

\* ------------------------------------------------------------------ failed calls
\* A client that leaves and re-enters the session, so that the tasks of the
\* earlier scope are no longer in the table, and passes them to rules next to
\* futures of the current scope, inside and outside record() scopes.
NextFail ==
    \/ SessionEnter(Sess)
    \/ SessionExit(Sess)
    \/ \E n \in 0..1 : CallInScope("fib3", <<PInt(n)>>)
    \/ \E t \in Handles \cap tasks : IndexNew(t, PInt(0))
    \/ \E x \in Handles \cap Indexors(heap), y \in Handles \cap Tasks(heap) :
          CallInScope("add", <<Ref(x), Ref(y)>>)
    \/ \E t \in Handles \cap tasks : scopes = <<>> /\ RecordEnter(t)
    \/ RecordExit

SpecFail == Init /\ [][NextFail]_vars

\* ------------------------------------------------------------------ repeated eval
\* A client that evaluates its tasks again after an eval was aborted by a
\* rule body that raised.
RetryRules == {"flaky", "retry"}

NextRetry ==
    \/ \E f \in RetryRules, n \in 0..MaxN : CallRule(f, <<PInt(n)>>)
    \/ \E t \in Handles \cap Tasks(heap), asc \in BOOLEAN : EvalStart(Ref(t), asc)
    \/ \E asc \in BOOLEAN : EvalStep(asc)
    \/ EvalReturn

SpecRetry == Init /\ [][NextRetry]_vars

\* ------------------------------------------------------------------ legacy workers
\* the worker processes running next to each other on the task root
SpecWorkers == Init /\ [][NextWorkers]_vars

\* ------------------------------------------------------------------ function hashing
\* a program of functions whose globals refer to each other in any way, and
\* client code that hashes them
InitFuncs ==
    /\ heap = <<>>
    /\ tasks = {}
    /\ task_tape = None
    /\ queue = <<>>
    /\ pc = "idle"
    /\ root = None
    /\ evalNo = 0
    /\ held = {}
    /\ ret = NoRet
    /\ active = Sess
    /\ scopes = <<>>
    /\ WorkersInit
    /\ globals_of \in [Funcs -> SUBSET Funcs]
    /\ HashIdle

SpecFuncs == InitFuncs /\ [][NextFuncs]_vars

\* ------------------------------------------------------------------ cycles
\* client code with rules whose future results form a cycle, next to rules
\* whose results do not
CycleRules == {"loop", "ping", "lookup"}

\* the while loop of eval as one step of the interpreter
EvalLoop == \E asc \in BOOLEAN : EvalStep(asc)

NextCycle ==
    \/ \E f \in CycleRules, n \in 0..MaxN : CallRule(f, <<PInt(n)>>)
    \/ \E t \in Handles \cap Tasks(heap), asc \in BOOLEAN : EvalStart(Ref(t), asc)
    \/ EvalLoop
    \/ EvalReturn

\* `while queue:` holds; no other guard stands before the loop's body, so
\* this is ENABLED <<EvalLoop>>_vars
LoopEnabled == pc = "eval" /\ queue # <<>>

\* WF_vars(EvalLoop) with ENABLED worked out: while eval is in its loop the
\* only steps are the loop's, so a step taken with LoopEnabled is an EvalLoop
\* step
LoopFair == []<>~LoopEnabled \/ []<><<LoopEnabled>>_vars

\* eval is a synchronous call: once entered, the interpreter keeps executing
\* the loop and the return statement
SpecCycle ==
    Init /\ [][NextCycle]_vars /\ LoopFair /\ WF_vars(EvalReturn)

\* ------------------------------------------------------------------ properties
NoBodyRaised == \A t \in Tasks(heap) : ~heap[t].raised
EvalEnded == pc = "idle" /\ ret.op = "eval"

\* C1: deduplication.  Every Task object a create_task call returned is in the
\* heap; two of them with equal hashids (same function, arguments of equal
\* hashids) are the identical object, the table holds one task per hashid,
\* and every returned task is the table's task.
C1_Dedup ==
    /\ \A t, u \in Tasks(heap) : heap[t].hashid = heap[u].hashid => t = u
    /\ \A t, u \in tasks : heap[t].hashid = heap[u].hashid => t = u
    /\ Tasks(heap) = tasks

\* a client call has returned a task the client did not create itself: a
\* deduplication hit on a task made inside a rule body
C1_Witness ==
    /\ ret.op = "call" /\ ret.kind = "future"
    /\ ret.id \notin held
    /\ \E t \in Tasks(heap) : \E i \in DOMAIN heap[t].tchildren : heap[t].tchildren[i] = ret.id

\* C2 (as claimed): an eval over these finite, acyclic rules never ends in
\* FutureNotDone or in a failed assertion of the engine.
C2_EvalReturns ==
    EvalEnded /\ NoBodyRaised => ret.err \notin {"FutureNotDone", "AssertionError"}

\* C3 (as claimed): as long as no rule body raised, every task's function has
\* been invoked at most once, the queue holds no task twice and no task
\* that has run.
C3_Memoised ==
    NoBodyRaised =>
        /\ \A t \in Tasks(heap) : heap[t].runs <= 1
        /\ \A i, j \in DOMAIN queue : queue[i] = queue[j] => i = j
        /\ \A i \in DOMAIN queue : ~HasRun(heap, queue[i])

\* C4: whenever a task's function was invoked, all its argument futures were
\* done, and each value passed is the argument's final result, free of
\* future handles.
C4_ArgsFinal ==
    \A t \in Tasks(heap) :
        heap[t].runs > 0 =>
            /\ heap[t].argsDone
            /\ \A i \in DOMAIN heap[t].args :
                /\ heap[t].passed[i] = heap[heap[t].args[i]].result
                /\ FuturesIn(heap[t].passed[i]) = {}

\* a task has been invoked on an argument task that went through HAS_RUN
C4_Witness ==
    \E t \in Tasks(heap) :
        /\ heap[t].runs > 0
        /\ \E i \in DOMAIN heap[t].args :
            /\ heap[heap[t].args[i]].kind = "Task"
            /\ FuturesIn(heap[heap[t].args[i]].returned) # {}

RECURSIVE FibNum(_)
FibNum(n) == IF n < 2 THEN n ELSE FibNum(n - 1) + FibNum(n - 2)

FibTasks == {t \in tasks : heap[t].func = "fib"}
\* the integer a fib task was called with
FibArg(t) == heap[heap[t].args[1]].result.int
FibRoot == FibArg(root)

\* C5 (as claimed): eval(fib(n)) is the n-th Fibonacci number and the table
\* then holds exactly n+1 fib tasks.
C5_Original ==
    EvalEnded =>
        /\ ret.kind = "value" /\ ret.val = PInt(FibNum(FibRoot))
        /\ Cardinality(FibTasks) = FibRoot + 1

\* C5 (amended): eval(fib(n)) is the n-th Fibonacci number and the table then
\* holds one fib task per argument value 0..n, n+1 in all, except for n = 1,
\* where fib(0) is never called and the table holds fib(1) alone.
C5_Fib ==
    EvalEnded =>
        /\ ret.kind = "value" /\ ret.val = PInt(FibNum(FibRoot))
        /\ {FibArg(t) : t \in FibTasks} = (IF FibRoot = 1 THEN {1} ELSE 0..FibRoot)
        /\ Cardinality(FibTasks) = (IF FibRoot = 1 THEN 1 ELSE FibRoot + 1)

C5_Witness == EvalEnded /\ ret.kind = "value" /\ FibRoot = MaxFib

\* C6 (as claimed, for the templates that have been registered): once all
\* futures embedded in a template are done, the template is done and its
\* result is the value with the futures replaced by their results.
C6_TemplateLaw ==
    \A T \in Templates(heap) :
        (heap[T].registered /\ \A f \in heap[T].futures : Done(heap, f)) =>
            /\ Done(heap, T)
            /\ heap[T].result = Substitute(heap, T, NoResult).val

\* C7 (as claimed, for the indexors that have been registered and whose keys
\* exist in the task's result): once the task is done, the indexor's result
\* is the task's result walked along the keys.
C7_IndexorLaw ==
    \A x \in Indexors(heap) :
        /\ heap[heap[x].task].kind = "Task"
        /\ (/\ heap[x].registered
            /\ Done(heap, heap[x].task)
            /\ Walk(heap[heap[x].task].result, heap[x].keys).ok)
           => /\ Done(heap, x)
              /\ heap[x].result = Walk(heap[heap[x].task].result, heap[x].keys).val

\* C8 (as claimed): a task whose body returned a future, or a composite
\* embedding futures, has that future as future_result (HAS_RUN) or, once
\* that future was done, its value as result.
C8_Chained ==
    \A t \in Tasks(heap) :
        (heap[t].runs > 0 /\ ~heap[t].raised /\ FuturesIn(heap[t].returned) # {})
            => HasRun(heap, t)

\* C9: a done future stays done with the same result under every step, and a
\* set_result on a done future is rejected and changes nothing.
C9_Stable ==
    [][/\ \A f \in DOMAIN heap :
            Done(heap, f) => Done(heap', f) /\ heap'[f].result = heap[f].result
       /\ (ret'.op = "set_result" /\ ret.op # "set_result")
            => ret'.kind = "error" /\ heap' = heap]_vars

\* set_result has just been called on a future of the client that is done
C9_Witness ==
    /\ ret.op = "set_result" /\ ret.kind = "error"
    /\ Done(heap, ret.id)

\* C10: eval of a plain value returns it verbatim and leaves the table, the
\* tape and every future as they were.
C10_PassThrough ==
    [][(pc = "idle" /\ pc' = "idle" /\ ret'.op = "eval" /\ ret' # ret)
         => /\ ret'.kind = "value" /\ ret'.val = ret'.arg
            /\ FuturesIn(ret'.arg) = {}
            /\ heap' = heap /\ tasks' = tasks /\ task_tape' = task_tape]_vars

\* a composite plain value has been evaluated in a session that holds tasks
C10_Witness ==
    /\ EvalEnded /\ ret.kind = "value"
    /\ IsList(ret.arg) /\ ret.val = ret.arg
    /\ tasks # {}

\* C11 (as claimed): for every task, future_result is set if and only if the
\* state the task reports is HAS_RUN; a task whose result is set reports
\* something else.
C11_HasRunIffFutureResult ==
    \A t \in Tasks(heap) :
        (heap[t].future_result # None) <=> (TaskState(heap, t) = HAS_RUN)

\* C12 (as claimed): the state a future reports is UNREGISTERED when it has
\* not been registered, PENDING when registered with parents pending, READY
\* when registered with no parent pending and no result, HAS_RUN for a task
\* that awaits its future_result, DONE when its result is set, and DONE is
\* reported by no future that is not done.
C12_StateMachine ==
    \A f \in DOMAIN heap :
        /\ Done(heap, f) => StateOf(heap, f) = DONE
        /\ ~Done(heap, f) =>
            /\ StateOf(heap, f) # DONE
            /\ StateOf(heap, f) =
                 (IF heap[f].kind = "Task" /\ heap[f].future_result # None THEN HAS_RUN
                  ELSE IF ~heap[f].registered THEN UNREGISTERED
                  ELSE IF heap[f].pending # {} THEN PENDING
                  ELSE READY)
        /\ Done(heap, f) /\ heap[f].kind = "Task" => StateOf(heap, f) # HAS_RUN

\* C13: FIFO scheduling.  A task's function is invoked only by an iteration
\* of eval's loop, only for the task at the head of the queue and once per
\* iteration, and an iteration that goes on leaves the rest of the queue in
\* place, adding at the end: tasks run one at a time in the order they were
\* enqueued.
C13_Fifo ==
    [][/\ \A t \in DOMAIN heap :
            heap'[t].runs # heap[t].runs =>
                /\ pc = "eval" /\ queue # <<>>
                /\ t = Head(queue)
                /\ heap'[t].runs = heap[t].runs + 1
       /\ \A t \in DOMAIN heap' \ DOMAIN heap : heap'[t].runs = 0
       /\ (pc = "eval" /\ pc' = "eval" /\ queue # <<>>) =>
            /\ Len(queue') >= Len(queue) - 1
            /\ SubSeq(queue', 1, Len(queue) - 1) = Tail(queue)]_vars

\* eval is in its loop with two tasks enqueued, after it has run a task
C13_Witness ==
    /\ pc = "eval" /\ Len(queue) >= 2
    /\ \E t \in Tasks(heap) : heap[t].runs > 0

\* the tasks an argument of a task leads to: the argument itself, the task of
\* an Indexor, the tasks embedded in a composite
ArgTasks(h, a) ==
    IF h[a].kind = "Task" THEN {a}
    ELSE IF h[a].kind = "Indexor" THEN {h[a].task}
    ELSE {IF h[x].kind = "Indexor" THEN h[x].task ELSE x : x \in h[a].futures}

\* C14 (as claimed): a create_task that returned a task found every task its
\* arguments lead to, done or not, in the session's table; one that raised
\* ArgNotInSession inserted nothing.
C14_ArgsInSession ==
    [][(ret'.op \in {"call", "create"} /\ ret' # ret) =>
          /\ ret'.kind = "future" =>
                \A i \in DOMAIN heap'[ret'.id].args :
                    \A t \in ArgTasks(heap', heap'[ret'.id].args[i]) :
                        \E u \in tasks' : heap'[u].hashid = heap'[t].hashid
          /\ ret'.err = "ArgNotInSession" => tasks' = tasks]_vars

\* C15: a Rule called while no session is entered raises NoActiveSession and
\* creates and registers nothing; called while the session is entered it is
\* that session's create_task: the task returned is in its table.
C15_NoActiveSession ==
    [][(ret'.op = "call" /\ ret' # ret) =>
          IF active = None
          THEN /\ ret'.kind = "error" /\ ret'.err = "NoActiveSession"
               /\ heap' = heap /\ tasks' = tasks
          ELSE /\ ret'.err # "NoActiveSession"
               /\ ret'.kind = "future" => ret'.id \in tasks']_vars

\* a Rule has been called after the session was left
C15_Witness ==
    /\ ret.op = "call" /\ ret.err = "NoActiveSession"
    /\ active = None /\ evalNo > 0

\* C16: the iteration in which a rule body raises ends eval with that error:
\* the task was invoked once, has no result and no future_result, every task
\* of the table before and every task the body created is in the table, and
\* no tape is active.
C16_BodyRaises ==
    [][\A t \in Tasks(heap) :
          (heap'[t].raised /\ ~heap[t].raised) =>
              /\ pc = "eval" /\ pc' = "idle"
              /\ ret'.op = "eval" /\ ret'.kind = "error" /\ ret'.err = "RuleError"
              /\ heap'[t].runs = heap[t].runs + 1
              /\ ~Done(heap', t) /\ heap'[t].future_result = None
              /\ ~HasRun(heap', t)
              /\ tasks \subseteq tasks'
              /\ \A j \in DOMAIN heap'[t].tchildren : heap'[t].tchildren[j] \in tasks'
              /\ task_tape' = None]_vars

\* an eval has ended with the error of a rule body
C16_Witness ==
    /\ pc = "idle" /\ ret.op = "eval" /\ ret.err = "RuleError"
    /\ \E t \in tasks : heap[t].raised /\ ~HasRun(heap, t)

\* C17: result() of a future that is not done raises FutureNotDone without a
\* default and returns default_result(default) with one, leaving the future
\* not done; result() of a done future returns the stored value, default or
\* not; no state changes.
C17_Result ==
    [][(ret'.op = "result" /\ ret' # ret) =>
          /\ heap' = heap /\ tasks' = tasks /\ task_tape' = task_tape
          /\ IF Done(heap, ret'.id)
             THEN ret'.kind = "value" /\ ret'.val = heap[ret'.id].result
             ELSE IF ret'.arg = NoResult
             THEN ret'.kind = "error" /\ ret'.err = "FutureNotDone"
             ELSE /\ ret'.kind = "value"
                  /\ ret'.val = DefaultResult(heap, ret'.id, ret'.arg).val
                  /\ ~Done(heap', ret'.id)]_vars

\* result(default) has been called on a done future
C17_Witness ==
    /\ ret.op = "result" /\ ret.kind = "value" /\ ret.arg # NoResult
    /\ Done(heap, ret.id) /\ ret.val = heap[ret.id].result

C19_OneSession ==
    [][(ret'.op = "enter" /\ ret' # ret) =>
          IF active # None
          THEN ret'.kind = "error" /\ active' = active
          ELSE ret'.kind = "value" /\ active' = ret'.id]_vars

\* a session has been refused entry while another one is active
C19_Witness ==
    /\ ret.op = "enter" /\ ret.kind = "error"
    /\ active # None /\ ret.id # active

\* C20 (as claimed): right after the session is entered its table is empty and
\* no tape is active; right after it is left its table is empty and no
\* session is active.
C20_Lifecycle ==
    /\ (ret.op = "enter" /\ ret.kind = "value" /\ ret.id = Sess) =>
            tasks = {} /\ task_tape = None
    /\ (ret.op = "exit" /\ ret.id = Sess) => tasks = {} /\ active = None

\* the hashids of a task's arguments, in order
ArgHashes(h, t) == [i \in DOMAIN h[t].args |-> h[h[t].args[i]].hashid]

\* C21: two tasks have equal hashids exactly when their functions' full names
\* and the sequences of their arguments' hashids agree, whatever their
\* defaults, registration and completion; and no step changes the hashid of
\* an object.
C21_TaskHashid ==
    [][/\ \A t, u \in Tasks(heap') :
            (heap'[t].hashid = heap'[u].hashid)
                <=> /\ get_fullname(heap'[t].func) = get_fullname(heap'[u].func)
                    /\ ArgHashes(heap', t) = ArgHashes(heap', u)
       /\ \A t \in DOMAIN heap \cap DOMAIN heap' : heap'[t].hashid = heap[t].hashid]_vars

\* two Task objects of one hashid that differ in default and in completion
C21_Witness ==
    \E t, u \in Tasks(heap) :
        /\ t # u /\ heap[t].hashid = heap[u].hashid
        /\ heap[t].default # heap[u].default
        /\ Done(heap, t) /\ ~Done(heap, u) /\ heap[u].registered

\* C22 (as claimed): two Indexors of one hashid have the same root task and
\* the same key path, and the futures a Template embeds under one hashid are
\* one future.
C22_HashidNames ==
    /\ \A x, y \in Indexors(heap) :
            heap[x].hashid = heap[y].hashid =>
                /\ heap[heap[x].task].hashid = heap[heap[y].task].hashid
                /\ heap[x].keys = heap[y].keys
    /\ \A T \in Templates(heap) : \A a, b \in heap[T].futures :
            heap[a].hashid = heap[b].hashid =>
                /\ heap[a].kind = heap[b].kind
                /\ heap[a].task = heap[b].task
                /\ heap[a].keys = heap[b].keys

\* the step invokes the function of task t and the body returns
Returns(t) ==
    /\ t \in DOMAIN heap
    /\ heap'[t].runs = heap[t].runs + 1
    /\ heap'[t].raised = heap[t].raised
    /\ heap'[t].returned # NoResult

\* C23: direct completion.  The step in which the body of a ready task
\* returns a value that embeds no future sets exactly that value as the
\* task's result: the task was ready and not done, is done afterwards, and
\* has no future_result before or after.
C23_DirectCompletion ==
    [][\A t \in Tasks(heap') :
          (Returns(t) /\ FuturesIn(heap'[t].returned) = {}) =>
              /\ Ready(heap, t) /\ ~Done(heap, t)
              /\ heap[t].future_result = None
              /\ Done(heap', t)
              /\ heap'[t].result = heap'[t].returned
              /\ heap'[t].future_result = None]_vars

\* a task whose body returned a composite without futures is done with it
C23_Witness ==
    \E t \in Tasks(heap) :
        /\ heap[t].runs > 0 /\ ~heap[t].raised
        /\ IsList(heap[t].returned) /\ FuturesIn(heap[t].returned) = {}
        /\ heap[t].result = heap[t].returned

\* C24: every done future is ready: a future whose result is set has an empty
\* pending set.
C24_DoneIsReady ==
    \A f \in DOMAIN heap : Done(heap, f) => Ready(heap, f)

\* an Indexor that was registered while its task was pending is done
C24_Witness ==
    \E f, p \in DOMAIN heap :
        /\ f \in heap[p].children
        /\ Done(heap, p) /\ Done(heap, f)
        /\ heap[f].kind = "Indexor"

\* C25 (as claimed): the pending set of a registered future holds only parents
\* that are not done.
C25_PendingNotDone ==
    \A f \in DOMAIN heap :
        heap[f].registered => \A p \in heap[f].pending : ~Done(heap, p)

\* C26: register() is idempotent.  The first call returns true, marks the
\* future registered and puts it into the children of each of its pending
\* parents; a later call returns false and changes no future; no call
\* changes a pending set or a callback list.
C26_RegisterOnce ==
    [][(ret'.op = "register" /\ ret' # ret) =>
          /\ IF heap[ret'.id].registered
             THEN ret'.val = PBool(FALSE) /\ heap' = heap
             ELSE /\ ret'.val = PBool(TRUE)
                  /\ heap'[ret'.id].registered
                  /\ \A p \in heap[ret'.id].pending : ret'.id \in heap'[p].children
          /\ DOMAIN heap' = DOMAIN heap
          /\ \A g \in DOMAIN heap :
                /\ heap'[g].pending = heap[g].pending
                /\ heap'[g].ready_callbacks = heap[g].ready_callbacks
                /\ heap'[g].done_callbacks = heap[g].done_callbacks]_vars

\* register() has been called again on a future that waits for a parent
C26_Witness ==
    /\ ret.op = "register" /\ ret.val = PBool(FALSE)
    /\ \E p \in heap[ret.id].pending : ret.id \in heap[p].children

\* C27 (as claimed): every future in the pending set of a registered Task or
\* Template is registered.
C27_ParentsRegistered ==
    \A f \in Tasks(heap) \cup Templates(heap) :
        heap[f].registered => \A p \in heap[f].pending : heap[p].registered

\* C28 (as claimed): the ready callbacks of a future that is ready have each
\* been invoked once, in the order in which they were added, and those of a
\* future that is not ready have not been invoked.
C28_CallbacksOnce ==
    \A f \in DOMAIN heap :
        heap[f].fired = IF Ready(heap, f) THEN heap[f].added ELSE <<>>

\* a is an initial part of b
IsPrefix(a, b) == Len(a) <= Len(b) /\ a = SubSeq(b, 1, Len(a))

\* a is b with some entries left out, the rest in b's order
RECURSIVE IsSubseq(_, _)
IsSubseq(a, b) ==
    IF a = <<>> THEN TRUE
    ELSE IF b = <<>> THEN FALSE
    ELSE IF Head(a) = Head(b) THEN IsSubseq(Tail(a), Tail(b))
    ELSE IsSubseq(a, Tail(b))

\* the entries of b after its initial part a
RestOf(a, b) == SubSeq(b, Len(a) + 1, Len(b))

\* C28 (amended): the callbacks invoked on a future are invoked in the order
\* in which they were added and none twice, none before the future is ready
\* (ready callbacks) or done (done callbacks); in a step that raises no
\* exception a future that becomes ready (done) has all its callbacks
\* invoked, and a future that was ready already has exactly the ready
\* callbacks added in that step invoked, in order.  A callback skipped
\* because an earlier one raised is never invoked later.
C28_CallbackOrder ==
    [][/\ \A f \in DOMAIN heap' :
            /\ IsSubseq(heap'[f].fired, heap'[f].added)
            /\ IsPrefix(heap'[f].dfired, heap'[f].done_callbacks)
            /\ ~Ready(heap', f) => heap'[f].fired = <<>>
            /\ ~Done(heap', f) => heap'[f].dfired = <<>>
       /\ \A f \in DOMAIN heap :
            /\ IsPrefix(heap[f].added, heap'[f].added)
            /\ IsPrefix(heap[f].fired, heap'[f].fired)
       /\ ret'.kind # "error" =>
            \A f \in DOMAIN heap' :
                /\ IF f \in DOMAIN heap /\ Ready(heap, f)
                   THEN RestOf(heap[f].fired, heap'[f].fired)
                            = RestOf(heap[f].added, heap'[f].added)
                   ELSE Ready(heap', f) => heap'[f].fired = heap'[f].added
                /\ \/ f \in DOMAIN heap /\ Done(heap, f)
                         /\ heap[f].dfired # heap[f].done_callbacks
                   \/ Done(heap', f) => heap'[f].dfired = heap'[f].done_callbacks]_vars

\* a future with deferred ready callbacks and two done callbacks is done, all
\* of them invoked
C28_Witness ==
    \E f \in DOMAIN heap :
        /\ Done(heap, f)
        /\ Len(heap[f].ready_callbacks) >= 2 /\ heap[f].fired = heap[f].added
        /\ Len(heap[f].done_callbacks) >= 2 /\ heap[f].dfired = heap[f].done_callbacks

C29_TapeRestored ==
    [][Len(scopes') < Len(scopes) => task_tape' = scopes[Len(scopes)]]_vars

\* what a referenced future contributes to a substitution with a default:
\* as claimed, future.default_result(default), done or not; in the code, its
\* result when it is done and default_result(default) only when it is not
Contribution(h, f, d, claimed) ==
    IF ~claimed /\ Done(h, f) THEN h[f].result ELSE DefaultResult(h, f, d).val

\* the composite a Template was built from, each future in it replaced by
\* its contribution
RECURSIVE Filled(_, _, _, _, _)
Filled(h, T, js, d, claimed) ==
    IF "hashid" \in DOMAIN js
    THEN Contribution(h, CHOOSE f \in h[T].futures : h[f].hashid = js.hashid, d, claimed)
    ELSE IF IsList(js)
         THEN PList([i \in DOMAIN js.list |-> Filled(h, T, js.list[i], d, claimed)])
         ELSE js

\* substitute() without a default raises FutureNotDone exactly when a
\* referenced future is not done, and returns the results otherwise
SubstituteStrict ==
    ret.op = "substitute" /\ ret.arg = NoResult =>
        IF \E f \in heap[ret.id].futures : ~Done(heap, f)
        THEN ret.kind = "error" /\ ret.err = "FutureNotDone"
        ELSE ret.kind = "value"
                /\ ret.val = Filled(heap, ret.id, heap[ret.id].jsonstr, NoResult, FALSE)

\* C31 (as claimed): substitute(default) returns the composite with every
\* referenced future, done or not, replaced by future.default_result(default);
\* substitute() raises FutureNotDone when a referenced future is not done.
C31_SubstituteDefault ==
    /\ SubstituteStrict
    /\ ret.op = "substitute" /\ ret.arg # NoResult =>
        /\ ret.kind = "value"
        /\ ret.val = Filled(heap, ret.id, heap[ret.id].jsonstr, ret.arg, TRUE)

\* C31 (amended): substitute(default) returns the composite with every
\* referenced future replaced by its result when it is done and by
\* future.default_result(default) when it is not; substitute() raises
\* FutureNotDone when a referenced future is not done.
C31_SubstituteResult ==
    /\ SubstituteStrict
    /\ ret.op = "substitute" /\ ret.arg # NoResult =>
        /\ ret.kind = "value"
        /\ ret.val = Filled(heap, ret.id, heap[ret.id].jsonstr, ret.arg, FALSE)

\* substitute(default) has returned on a Template that refers to a done
\* future and to a task that has run and waits for its future_result
C31_Witness ==
    /\ ret.op = "substitute" /\ ret.arg # NoResult /\ ret.kind = "value"
    /\ \E f, t \in heap[ret.id].futures :
        /\ Done(heap, f)
        /\ heap[t].kind = "Task" /\ ~Done(heap, t) /\ heap[t].future_result # None
\* the futures create_task registers for the calls a task's body made: the
\* tasks and their arguments
MadeBy(h, t) ==
    {h[t].calls[i] : i \in DOMAIN h[t].calls}
        \cup UNION {{h[h[t].calls[i]].args[j] : j \in DOMAIN h[h[t].calls[i]].args} :
                       i \in DOMAIN h[t].calls}

\* C32: a run_task call that returns with the task not ready was made with
\* allow_unfinished, returns what the function returned, and commits
\* nothing: the task has no result, its future_result, done callbacks and
\* children and the pending sets of its children are as before, no done
\* callback was added to any future, and the futures registered in the step
\* are those create_task registered for the calls of the body.
C32_NoCommit ==
    [][ret'.op = "run_task" /\ ret'.kind = "value" /\ ~Ready(heap', ret'.id) =>
          /\ ret'.arg = PBool(TRUE)
          /\ ret'.val = heap'[ret'.id].returned /\ ret'.val # NoResult
          /\ heap'[ret'.id].result = NoResult
          /\ heap'[ret'.id].future_result = heap[ret'.id].future_result
          /\ heap'[ret'.id].children = heap[ret'.id].children
          /\ \A c \in heap[ret'.id].children : heap'[c].pending = heap[c].pending
          /\ \A f \in DOMAIN heap' :
                heap'[f].done_callbacks
                    = IF f \in DOMAIN heap THEN heap[f].done_callbacks ELSE <<>>
          /\ \A f \in DOMAIN heap' :
                heap'[f].registered /\ ~(f \in DOMAIN heap /\ heap[f].registered)
                    => f \in MadeBy(heap', ret'.id)]_vars

\* run_task(allow_unfinished=True) has returned a composite that embeds a
\* task to a task that is not ready and has a registered child
C32_Witness ==
    /\ ret.op = "run_task" /\ ret.kind = "value" /\ ret.arg = PBool(TRUE)
    /\ ~Ready(heap, ret.id)
    /\ FuturesIn(ret.val) # {}
    /\ heap[ret.id].children # {}
\* C33: the pending set of a future only shrinks, so a ready future stays
\* ready in every step; and a task whose body ran in a step that raised
\* nothing is ready after it and was committed (it has run or is done),
\* whatever tasks the body created.
C33_ReadyStays ==
    [][\A f \in DOMAIN heap :
          /\ f \in DOMAIN heap'
          /\ heap'[f].pending \subseteq heap[f].pending
          /\ Ready(heap, f) => Ready(heap', f)
          /\ heap'[f].runs > heap[f].runs /\ ret'.kind # "error" =>
                Ready(heap', f) /\ HasRun(heap', f)]_vars

\* a task that was run is ready and waits for its future_result, and its
\* body created a task
C33_Witness ==
    \E t \in Tasks(heap) :
        /\ heap[t].runs > 0 /\ heap[t].calls # <<>>
        /\ Ready(heap, t) /\ ~Done(heap, t) /\ heap[t].future_result # None
\* C34: every registered future is among the children of each of its pending
\* parents, and no set_result has called parent_done on a child that did not
\* have the parent in its pending set (which is a KeyError of set.remove).
C34_Wiring ==
    /\ \A f \in DOMAIN heap :
          heap[f].registered => \A p \in heap[f].pending : f \in heap[p].children
    /\ ret.err # "KeyError"

\* a future is done and has told a registered child, which no longer waits
\* for it, while another child of it still waits for a second parent
C34_Witness ==
    \E p \in DOMAIN heap :
        /\ Done(heap, p)
        /\ \E c \in heap[p].children :
              heap[c].registered /\ p \notin heap[c].pending /\ heap[c].pending # {}

\* the futures met by following future_result from f
RECURSIVE ResultChain(_, _, _)
ResultChain(h, f, seen) ==
    IF f = None \/ f \in seen THEN seen
    ELSE ResultChain(h, h[f].future_result, seen \cup {f})

\* the future results from f on form a cycle
Cyclic(h, f) ==
    \E g \in ResultChain(h, f, {}) :
        h[g].future_result # None /\ h[g].future_result \in ResultChain(h, f, {})
                                  /\ g \in ResultChain(h, h[g].future_result, {})

\* C35: eval terminates, also when future results form a cycle: every eval
\* that entered its loop leaves it, and an eval whose root's future results
\* form a cycle ends by raising FutureNotDone, never by returning a value.
C35_EvalTerminates ==
    /\ (pc = "eval") ~> (pc = "idle")
    /\ [][pc = "eval" /\ pc' = "idle" /\ Cyclic(heap', root)
            => ret'.kind = "error" /\ ret'.err = "FutureNotDone"]_vars

C35_Witness ==
    /\ pc = "idle"
    /\ root # None
    /\ heap[root].func = "ping"
    /\ Cyclic(heap, root)
    /\ heap[root].future_result # root
    /\ heap[root].runs = 1
    /\ ret = RetError("eval", "FutureNotDone", root)

\* C36 (as claimed): a Rule call that raised ArgNotInSession left the task
\* table, the active tape and the children set of every future that existed
\* before the call as they were.
C36_FailedCreate ==
    [][(ret'.op = "call" /\ ret'.err = "ArgNotInSession" /\ ret' # ret) =>
          /\ tasks' = tasks
          /\ task_tape # None =>
                heap'[task_tape].tchildren = heap[task_tape].tchildren
          /\ \A f \in DOMAIN heap : heap'[f].children = heap[f].children]_vars

\* what flaky(x) and retry(x) evaluate to in a fresh session whose bodies
\* return: x
FreshValue(h, t) == h[h[t].args[1]].result

\* C37 (as claimed): an eval that follows an eval aborted by a rule body
\* that raised (a task behind the root's future results has raised), and in
\* which no body raises, returns the value an evaluation in a fresh session
\* gives, and has run every task behind the root.
C37_EvalRepeats ==
    [][(/\ pc = "eval" /\ pc' = "idle"
        /\ ret'.err # "RuleError"
        /\ \E t \in ResultChain(heap, root, {}) : heap[t].raised) =>
          /\ ret' = RetValue("eval", FreshValue(heap, root), root, NoResult)
          /\ \A t \in ResultChain(heap', root, {}) :
                heap'[t].kind = "Task" => HasRun(heap', t)]_vars

\* the workers that hold the lock of task t: between mkdir and rmdir
Holders(t) ==
    {w \in Workers : current_taskid[w] = t /\ wpc[w] \in {"command", "unlink", "rmdir"}}

\* C38 (as claimed): no two workers are executing the command of the same
\* task; no worker is executing the command of a sealed task; and a lock
\* directory exists only while a worker is between acquiring it and releasing
\* it, so a worker that has gone on or quit has released its lock.
C38_Workers ==
    /\ \A t \in Dirs : Cardinality({w \in Workers : current_taskid[w] = t
                                                     /\ wpc[w] = "command"}) <= 1
    /\ \A w \in Workers : wpc[w] = "command" => ~seal[current_taskid[w]]
    /\ \A t \in Dirs : lock[t] <=> Holders(t) # {}

\* C39 (as claimed): hash_function returns for every function of such a
\* program, also one that refers to itself or to a function that refers back:
\* no call ends in an error; and once a function has a hash, every later
\* call returns that hash.
C39_HashFunction ==
    [][/\ hret'.kind # "error"
       /\ \A f \in Funcs : cache[f] # NoResult => cache'[f] = cache[f]
       /\ (hret'.kind = "value" /\ hstack' = <<>> /\ (hstack # <<>> \/ hret' # hret)) =>
              hret'.val = cache'[hret'.id]]_vars
====
